---- MODULE Spec2Model ----
(***************************************************************************)
(* GlossaryFlow: the Markdown translation pipeline.                        *)
(*                                                                         *)
(*  - MarkdownTranslator.translate and the output cleaning it calls        *)
(*    (src/src/translator/markdown_translator.py): specification Spec.     *)
(*  - MarkdownTranslator._validate_translation over every short candidate: *)
(*    specification ValidatorSpec.                                         *)
(*  - TranslationOutputContract.parse_model_output                         *)
(*    (src/src/core/output_contract.py): specification ContractSpec.       *)
(*                                                                         *)
(* Text is modelled as TLA+ strings, character by character.  The          *)
(* character "@" stands for one character of the range U+4E00..U+9FFF      *)
(* (the only source-script character of the model's alphabet); the         *)
(* Chinese-script entries of the code's phrase lists cannot occur in a     *)
(* text over this alphabet and are left out of the lists below, each       *)
(* omission marked at the list.  "~" stands for the backquote.             *)
(***************************************************************************)
EXTENDS FiniteSets, Integers, Sequences, TLC

VARIABLES
    model_type,      \* MarkdownTranslator.model_type: "chat", "reasoning", "mt-like"
    markdown_text,   \* the argument of translate()
    attempt,         \* the loop variable of translate()
    calls,           \* number of provider.translate calls issued so far
    prompts,         \* the prompt of each call, in order
    outcomes,        \* per finished attempt: did the provider raise, and the
                     \* validator's verdict ("valid", "invalid", "unchecked")
    raw_result,      \* provider output of the last attempt ("" when it raised)
    cleaned_result,  \* _clean_model_output of the last attempt
    result,          \* value _translate_once returned in the last attempt
    pc,              \* "loop", "returned", "crashed" (an exception left translate())
    returned,        \* value translate() returned
    v_text,          \* ValidatorSpec: the candidate
    v_valid,         \* ValidatorSpec: verdict of _validate_translation
    v_pc,            \* ValidatorSpec: "start", "done"
    c_source,        \* ContractSpec: the model output first handed to the contract
    c_pass,          \* ContractSpec: 1, or 2 when parse_model_output runs on its own result
    c_raw,           \* raw_output of the current parse_model_output call
    c_forced,        \* its local "cleaned" after step 0 (_apply_forced_removal)
    c_prefixed,      \*   after step 1 (_remove_prefix_patterns)
    c_thinking,      \*   after step 2 (_remove_thinking_tags)
    c_answer,        \*   after step 2.5 (_remove_answer_tags)
    c_echoed,        \*   after step 3 (_remove_instruction_echo_at_start)
    c_marked,        \*   after step 4 (_extract_from_start_marker)
    c_pruned,        \*   after step 5 (_remove_prompt_artifacts)
    c_full,          \*   after _enforce_content_start
    c_cleaned,       \* the text the call returned
    c_meta,          \* the metadata it returned
    c_pc,            \* "start", "parsed", "crashed" (IndexError left the call)
    s_text,          \* SegmenterSpec: the document handed to the segmenter
    s_units,         \* the list _parse_translation_units returned
    s_sections,      \* the list MarkdownParser.parse returned
    s_joined,        \* the document _reconstruct_document rebuilt from s_units
    s_pc,            \* "start", "units", "joined", "sections"
    d_model,         \* ClassifierSpec: model_name handed to _detect_model_type
    d_provider,      \* provider_name handed to it ("" also stands for None)
    d_type,          \* the model type it returned
    d_pc,            \* "start", "done"
    r_strategy,      \* RewriteSpec: the strategy class whose rewrite() runs
    r_source,        \* source_markdown handed to rewrite()
    r_units,         \* the units (lines) the document was parsed into
    r_rewritten,     \* rewritten_units (rewritten_lines)
    r_warnings,      \* warnings
    r_count,         \* rewritten_count
    r_events,        \* what happened in each finished iteration of the loop
    r_result,        \* rewritten_markdown of the RewriteResult
    r_pc,            \* "start", "loop", "done"
    g_stage,         \* StageSpec: the cleaning function applied
    g_text,          \* the text handed to it
    g_out,           \* the text it returned
    g_kept,          \* the indices (1-based) of the lines of g_text it kept
    g_pc,            \* "start", "done", "crashed" (IndexError left the function)
    p_type,          \* PromptSpec: self.model_type of the translator
    p_glossary,      \* Glossary.terms: the (source, target) pairs in insertion order
    p_chat_exists,   \* prompt_exists('translation/base_chat.md')
    p_prompt,        \* the prompt _build_complete_prompt returned
    p_pc,            \* "start", "built"
    q_validator,     \* RewriteValidatorSpec: the strategy whose validator is applied
    q_original,      \* original
    q_rewritten,     \* rewritten
    q_valid,         \* what the validator returned
    q_pc,            \* "start", "done"
    job_storage,     \* ApiSpec: job_storage of api/endpoints/translation.py
    a_responses,     \* the status code start_translation answered, by job id
    a_tasks,         \* the background task perform_translation of each started job
    active_connections, \* ConnectionManager.active_connections: job id -> list
    a_sockets        \* the websocket_endpoint coroutine of each WebSocket

tvars == <<model_type, markdown_text, attempt, calls, prompts, outcomes,
           raw_result, cleaned_result, result, pc, returned>>
vvars == <<v_text, v_valid, v_pc>>
clocals == <<c_forced, c_prefixed, c_thinking, c_answer, c_echoed, c_marked, c_pruned,
            c_full>>
cvars == <<c_source, c_pass, c_raw, clocals, c_cleaned, c_meta, c_pc>>
svars == <<s_text, s_units, s_sections, s_joined, s_pc>>
\* the variables of the specifications that follow ContractSpec
dvars == <<d_model, d_provider, d_type, d_pc>>
rvars == <<r_strategy, r_source, r_units, r_rewritten, r_warnings, r_count, r_events,
           r_result, r_pc>>
gvars == <<g_stage, g_text, g_out, g_kept, g_pc>>
pvars == <<p_type, p_glossary, p_chat_exists, p_prompt, p_pc>>
\* the variables of the specifications that follow StageSpec
qvars == <<q_validator, q_original, q_rewritten, q_valid, q_pc>>
avars == <<job_storage, a_responses, a_tasks, active_connections, a_sockets>>
yvars == <<pvars, qvars, avars>>
\* the variables of the specifications up to StageSpec
earlier_vars == <<tvars, vvars, cvars, svars, dvars, rvars, gvars>>
not_pvars == <<earlier_vars, qvars, avars>>
not_qvars == <<earlier_vars, pvars, avars>>
not_avars == <<earlier_vars, pvars, qvars>>
xvars == <<svars, dvars, rvars, gvars, yvars>>
\* what the actions of SegmenterSpec, of ClassifierSpec leave alone
not_svars == <<tvars, vvars, cvars, dvars, rvars, gvars, yvars>>
not_dvars == <<tvars, vvars, cvars, svars, rvars, gvars, yvars>>
not_rvars == <<tvars, vvars, cvars, svars, dvars, gvars, yvars>>
not_gvars == <<tvars, vvars, cvars, svars, dvars, rvars, yvars>>
vars == <<tvars, vvars, cvars, xvars>>

(***************************************************************************)
(* Strings: the str operations the code uses.                              *)
(***************************************************************************)
Max(a, b) == IF a >= b THEN a ELSE b
Min(a, b) == IF a <= b THEN a ELSE b

CharAt(s, i) == SubSeq(s, i, i)
Slice(s, i) == SubSeq(s, i, Len(s))              \* s[i-1:] of Python, i 1-based

Whitespace == {" ", "\n", "\t"}
Digits == {"0", "1", "2", "3", "4", "5", "6", "7", "8", "9"}
ChineseChars == {"@"}                            \* '\u4e00' <= c <= '\u9fff'
UpperCase == "ABCDEFGHIJKLMNOPQRSTUVWXYZ"
LowerCase == "abcdefghijklmnopqrstuvwxyz"
UpperSet == {CharAt(UpperCase, i) : i \in 1..26}

LowerChar(c) ==
    IF c \in UpperSet
    THEN CharAt(LowerCase, CHOOSE i \in 1..26 : CharAt(UpperCase, i) = c)
    ELSE c

RECURSIVE LowerRec(_)
LowerRec(s) ==
    IF Len(s) = 0 THEN s
    ELSE IF Len(s) = 1 THEN LowerChar(s)
    ELSE LET h == Len(s) \div 2
         IN LowerRec(SubSeq(s, 1, h)) \o LowerRec(SubSeq(s, h + 1, Len(s)))

\* str.lower()
Lower(s) ==
    IF s = "" \/ \A i \in 1..Len(s) : CharAt(s, i) \notin UpperSet THEN s
    ELSE LowerRec(s)

\* s.startswith(p), s.endswith(p), p in s
StartsWith(s, p) == Len(p) <= Len(s) /\ SubSeq(s, 1, Len(p)) = p
EndsWith(s, p) == Len(p) <= Len(s) /\ SubSeq(s, Len(s) - Len(p) + 1, Len(s)) = p
MatchAt(s, p, i) == i >= 1 /\ i + Len(p) - 1 <= Len(s) /\ SubSeq(s, i, i + Len(p) - 1) = p
Contains(s, p) == \E i \in 1..(Len(s) + 1 - Len(p)) : MatchAt(s, p, i)
ContainsAny(s, ps) == \E p \in ps : Contains(s, p)
StartsWithAny(s, ps) == \E p \in ps : StartsWith(s, p)

SetMin(S) == CHOOSE x \in S : \A y \in S : x <= y
SetMax(S) == CHOOSE x \in S : \A y \in S : x >= y
\* the first / last index of a search, d when the search finds nothing
FirstOr(S, d) == IF S = {} THEN d ELSE SetMin(S)
LastOr(S, d) == IF S = {} THEN d ELSE SetMax(S)

\* first index >= from at which p occurs in s, 0 when there is none
FindFrom(s, p, from) ==
    FirstOr({i \in Max(from, 1)..(Len(s) + 1 - Len(p)) : MatchAt(s, p, i)}, 0)

\* str.strip(), str.lstrip(), str.rstrip()
NonSpaceAt(s) == {i \in 1..Len(s) : CharAt(s, i) \notin Whitespace}
Strip(s) ==
    IF s = "" \/ NonSpaceAt(s) = {} THEN ""
    ELSE SubSeq(s, SetMin(NonSpaceAt(s)), SetMax(NonSpaceAt(s)))
IsBlank(s) == NonSpaceAt(s) = {}

\* str.split('\n'): a non-empty sequence of lines
NewlineAt(s) == {i \in 1..Len(s) : CharAt(s, i) = "\n"}
Split(s) ==
    IF s = "" THEN <<"">> ELSE
    LET P == NewlineAt(s)
        n == Cardinality(P) + 1
        Brk(k) == IF k = 0 THEN 0
                  ELSE IF k = n THEN Len(s) + 1
                  ELSE CHOOSE p \in P : Cardinality({q \in P : q < p}) = k - 1
    IN [k \in 1..n |-> SubSeq(s, Brk(k - 1) + 1, Brk(k) - 1)]

\* '\n'.join(lines)
RECURSIVE Join(_)
Join(lines) ==
    IF Len(lines) = 0 THEN ""
    ELSE IF Len(lines) = 1 THEN lines[1]
    ELSE LET h == Len(lines) \div 2
         IN Join(SubSeq(lines, 1, h)) \o "\n" \o Join(SubSeq(lines, h + 1, Len(lines)))

\* [l for l in lines if keep(l)] for the index set of the kept lines
NthOf(keep, k) == CHOOSE i \in keep : Cardinality({j \in keep : j < i}) = k - 1
SelectIdx(lines, keep) ==
    IF lines = <<>> \/ keep = {} THEN <<>>
    ELSE [k \in 1..Cardinality(keep) |-> lines[NthOf(keep, k)]]

\* sum(1 for c in s if '\u4e00' <= c <= '\u9fff')
ChineseCount(s) == Cardinality({i \in 1..Len(s) : CharAt(s, i) \in ChineseChars})

\* stripped[0].isdigit() and (stripped[1] == '.' or stripped[1:3] == '. ')
\* on a non-empty string; it raises IndexError when the string is one digit
IsNumbered(st) ==
    /\ Len(st) >= 2
    /\ CharAt(st, 1) \in Digits
    /\ (CharAt(st, 2) = "." \/ SubSeq(st, 2, Min(3, Len(st))) = ". ")
NumberedRaises(st) == Len(st) = 1 /\ st \in Digits

(***************************************************************************)
(* MarkdownTranslator: output cleaning (markdown_translator.py).           *)
(***************************************************************************)
ShortOutputLen == 10          \* len(raw_output.strip()) < 10
SeparatorMinLen == 10         \* len(result) > 10 in _clean_by_separator
ReasoningEndLookahead == 5    \* range(i + 1, min(i + 5, len(lines)))
ReasoningEndMinLen == 20      \* len(lines[j].strip()) > 20
ReverseMinLen == 50           \* len(result) > 50 in _clean_by_reverse_search
ShortBulletLen == 100         \* len(line) < 100
PatternContentLen == 10       \* len(stripped) > 10 in _clean_by_patterns
ReasoningScanLines == 10      \* lines[:10] in _detect_reasoning
ReasoningStepCount == 3       \* reasoning_line_count >= 3

\* <tag>.*?</tag> with re.DOTALL | re.IGNORECASE, every match replaced by ''
RECURSIVE RemoveSpans(_, _, _)
RemoveSpans(s, open, close) ==
    LET low == Lower(s)
        i == FindFrom(low, open, 1)
        j == IF i = 0 THEN 0 ELSE FindFrom(low, close, i + Len(open))
    IN IF i = 0 \/ j = 0 THEN s
       ELSE SubSeq(s, 1, i - 1) \o RemoveSpans(Slice(s, j + Len(close)), open, close)

NonBlankLines(lines) == SelectIdx(lines, {i \in 1..Len(lines) : ~IsBlank(lines[i])})
DropBlankLines(text) ==
    IF text = "" THEN "" ELSE Strip(Join(NonBlankLines(Split(text))))

_remove_thinking_tags(text) ==
    IF text = "" THEN text
    ELSE DropBlankLines(
             RemoveSpans(
                 RemoveSpans(
                     RemoveSpans(text, "<thinking>", "</thinking>"),
                     "<analysis>", "</analysis>"),
                 "<reasoning>", "</reasoning>"))

strong_reasoning_indicators ==
    {"<thinking>", "<analysis>", "<reasoning>", "i will translate",
     "i need to translate", "let me translate", "step 1:", "step 2:",
     "first, i will", "my approach is to", "translation strategy:",
     "here is my plan"}

FirstLines(lines, n) == 1..Min(n, Len(lines))

_detect_reasoning(text) ==
    IF text = "" THEN FALSE
    ELSE IF ContainsAny(Lower(text), strong_reasoning_indicators) THEN TRUE
    ELSE LET lines == Split(text)
             numbered == {i \in FirstLines(lines, ReasoningScanLines) :
                             IsNumbered(Strip(lines[i]))}
         IN Cardinality(numbered) >= ReasoningStepCount

\* stripped[1] on a one-digit line: IndexError
_detect_reasoning_raises(text) ==
    /\ text # ""
    /\ ~ContainsAny(Lower(text), strong_reasoning_indicators)
    /\ LET lines == Split(text)
       IN \E i \in FirstLines(lines, ReasoningScanLines) : NumberedRaises(Strip(lines[i]))

\* the 3 Chinese-script entries of the source list are left out (see the module header)
intro_indicators ==
    {"here is", "below is", "following is", "translated", "translation:",
     "document:", "markdown document", "english translation",
     "chinese translation", "the document has", "steps:", "let's", "we will",
     "we are to", "let's break down", "note:", "original chinese text:",
     "we will translate", "paragraph by paragraph", "we note that",
     "we also note"}

IntroByText(line, patterns) ==
    LET lower == Lower(line)
        indicator_count == Cardinality({p \in intro_indicators : Contains(lower, p)})
    IN \/ ContainsAny(lower, patterns)
       \/ indicator_count >= 2
       \/ (Len(line) < 100 /\ indicator_count >= 1)

\* patterns = {} models patterns=None
_is_intro_line(line, patterns) ==
    IF line = "" THEN FALSE
    ELSE LET stripped == Strip(line)
         IN \/ IntroByText(line, patterns)
            \/ IsNumbered(stripped)
            \/ /\ StartsWith(stripped, "- ") \/ StartsWith(stripped, "* ")
               /\ Len(stripped) < ShortBulletLen

_is_intro_line_raises(line, patterns) ==
    line # "" /\ ~IntroByText(line, patterns) /\ NumberedRaises(Strip(line))

\* the 6 Chinese-script entries of the source list are left out
prompt_patterns ==
    {"you are a professional translator", "translate all chinese",
     "important requirements", "preserve all markdown", "do not translate:",
     "headings and paragraphs", "table content and", "list items",
     "image alt text", "code inside code blocks", "inline code content",
     "urls", "file paths", "- headings", "- table", "- list", "- code",
     "- preserve"}

PatternContentStart(lines, i) ==
    LET stripped == Strip(lines[i])
    IN /\ stripped # ""
       /\ ~_is_intro_line(stripped, prompt_patterns)
       /\ (StartsWith(stripped, "#") \/ Len(stripped) > PatternContentLen)

\* the first line the scan takes for content (1-based), the first line when
\* it finds none
PatternStartIdx(lines) ==
    FirstOr({i \in 1..Len(lines) : PatternContentStart(lines, i)}, 1)

\* "if not result or len(result) < 10: return raw_output"
PatternResult(raw_output, res) ==
    IF res = "" \/ Len(res) < PatternContentLen THEN raw_output ELSE res

_clean_by_patterns(raw_output) ==
    PatternResult(raw_output,
                  Strip(Join(SubSeq(Split(raw_output),
                                    PatternStartIdx(Split(raw_output)),
                                    Len(Split(raw_output))))))

_clean_by_patterns_raises(raw_output) ==
    LET lines == Split(raw_output)
    IN \E i \in 1..Len(lines) :
          /\ _is_intro_line_raises(Strip(lines[i]), prompt_patterns)
          /\ \A j \in 1..(i - 1) : ~PatternContentStart(lines, j)

separator_lines == {"---", "===", "***", "___"}
reasoning_end_patterns ==
    {"let's write the translation", "let's translate", "here's the translation",
     "translation:", "we will translate", "let's break down", "we are to output"}

\* the three searches of _clean_by_separator, each "" when it finds nothing
\* '\n'.join(lines[idx:]).strip() for a 1-based idx, "" when idx is 0
TailFrom(lines, idx) ==
    IF idx = 0 THEN "" ELSE Strip(Join(SubSeq(lines, idx, Len(lines))))

\* the text after the separator line at separator_idx (1-based, 0: none)
AfterSeparator(lines, separator_idx) ==
    IF separator_idx >= 1 /\ separator_idx < Len(lines)
    THEN TailFrom(lines, separator_idx + 1)
    ELSE ""

SeparatorPart(lines) ==
    AfterSeparator(lines,
        FirstOr({i \in 1..Len(lines) : Strip(lines[i]) \in separator_lines}, 0))

\* the first long line within the lookahead after the reasoning-end line i0
\* (1-based, 0: none): 0-based range(i + 1, min(i + 5, len(lines))) is
\* 1-based i0 + 1 .. min(i0 + 4, len(lines))
AfterReasoningEnd(lines, i0) ==
    IF i0 = 0 THEN 0
    ELSE FirstOr({j \in (i0 + 1)..Min(i0 + ReasoningEndLookahead - 1, Len(lines)) :
                     Len(Strip(lines[j])) > ReasoningEndMinLen}, 0)

ReasoningEndPart(lines) ==
    TailFrom(lines,
        AfterReasoningEnd(lines,
            FirstOr({i \in 1..Len(lines) :
                        ContainsAny(Lower(Strip(lines[i])), reasoning_end_patterns)}, 0)))

DoubleNewlineAt(lines) ==
    {i \in 1..(Len(lines) - 2) :
        IsBlank(lines[i]) /\ IsBlank(lines[i + 1]) /\ ~IsBlank(lines[i + 2])}

DoubleNewlinePart(lines) ==
    TailFrom(lines,
        FirstOr({i + 2 : i \in {h \in DoubleNewlineAt(lines) :
                                   ~_is_intro_line(Strip(lines[h + 2]), {})}}, 0))

\* the first of the three results that is longer than 10, "" when none is
FirstLongPart(r1, r2, r3) ==
    IF Len(r1) > SeparatorMinLen THEN r1
    ELSE IF Len(r2) > SeparatorMinLen THEN r2
    ELSE IF Len(r3) > SeparatorMinLen THEN r3
    ELSE ""

SeparatorParts(lines) ==
    FirstLongPart(SeparatorPart(lines), ReasoningEndPart(lines), DoubleNewlinePart(lines))

_clean_by_separator(raw_output) == SeparatorParts(Split(raw_output))

_clean_by_separator_raises(raw_output) ==
    LET lines == Split(raw_output)
    IN /\ Len(SeparatorPart(lines)) <= SeparatorMinLen
       /\ Len(ReasoningEndPart(lines)) <= SeparatorMinLen
       /\ \E i \in DoubleNewlineAt(lines) :
             /\ _is_intro_line_raises(Strip(lines[i + 2]), {})
             /\ \A j \in DoubleNewlineAt(lines) :
                   j < i => _is_intro_line(Strip(lines[j + 2]), {})

reasoning_patterns ==
    {"i will translate", "i need to", "let me", "first, i", "step ", "finally,",
     "in summary", "to summarize", "break down", "identify all",
     "translate each", "ensure that", "making sure", "checking that", "note:",
     "important:", "the document", "the user", "the text", "looking at",
     "here is what i will do", "my approach", "my strategy"}

\* 0-based int(len(lines) * 0.3): the scan stops below it
ReverseSearchLimit(lines) == (3 * Len(lines)) \div 10

ReverseContentEnd(lines) == LastOr({i \in 1..Len(lines) : ~IsBlank(lines[i])}, 0)

\* the lines the backward scan looks at (1-based), blank ones excluded
ReverseScanned(lines) ==
    {i \in (ReverseSearchLimit(lines) + 1)..ReverseContentEnd(lines) : ~IsBlank(lines[i])}

ReverseIsReasoning(lines, i) ==
    LET line == Strip(lines[i])
    IN \/ ContainsAny(Lower(line), reasoning_patterns)
       \/ (IsNumbered(line) /\ 5 * (i - 1) < Len(lines))      \* i < len(lines) * 0.2
       \/ /\ StartsWith(line, "- ") \/ StartsWith(line, "* ")
          /\ Len(line) < ShortBulletLen

\* "if len(result) > 50: return result", else None ("")
ReverseResult(res) == IF Len(res) > ReverseMinLen THEN res ELSE ""

\* lines[content_start_idx:content_end_idx + 1] joined and stripped, for the
\* 1-based line after the last reasoning line (0: no reasoning line found)
ReverseSlice(lines, content_start_idx, content_end_idx) ==
    IF content_start_idx = 0 \/ content_start_idx > content_end_idx THEN ""
    ELSE ReverseResult(Strip(Join(SubSeq(lines, content_start_idx, content_end_idx))))

_clean_by_reverse_search(lines) ==
    ReverseSlice(lines,
        LastOr({i + 1 : i \in {h \in ReverseScanned(lines) : ReverseIsReasoning(lines, h)}}, 0),
        ReverseContentEnd(lines))

_clean_by_reverse_search_raises(lines) ==
    \E i \in ReverseScanned(lines) :
        /\ NumberedRaises(Strip(lines[i]))
        /\ \A j \in ReverseScanned(lines) : j > i => ~ReverseIsReasoning(lines, j)

BilingualRatioNum == 4        \* chinese_ratio > 0.4, as 10 * chinese > 4 * total
RatioDen == 10

\* a filter that also drops the line at exactly 0.4
ChineseDominantOrEqual(line) ==
    RatioDen * ChineseCount(line) >= BilingualRatioNum * Len(Strip(line))

\* chinese_chars / total_chars > 0.4 for a non-blank line
ChineseDominant(line) ==
    RatioDen * ChineseCount(line) > BilingualRatioNum * Len(Strip(line))

_remove_chinese_lines_from_bilingual(text) ==
    IF text = "" THEN text
    ELSE LET lines == Split(text)
             keep == {i \in 1..Len(lines) : IsBlank(lines[i]) \/ ~ChineseDominant(lines[i])}
         IN Join(SelectIdx(lines, keep))

\* the 6 Chinese-script entries of the source list are left out
final_cleanup_keywords ==
    {"variable names", "brand names in english", "preserve all",
     "do not translate:", "output only", "markdown formatting",
     "terminology constraints:", "you must use the following",
     "when the chinese term appears", "specified english translation",
     "do not paraphrase", "do not abbreviate", "do not substitute",
     "if a term in the glossary", "ignore it", "if a chinese term",
     "prefer the glossary translation"}
glossary_brands ==
    {"certificate center", "byteplus", "digi cert", "geo trust", "global sign",
     "alpha ssl", "wotrus"}

\* the code fence: "~" stands for the backquote, which no TLA+ string can hold
Fence == "~~~"

\* header, code fence or table row: kept whatever it contains
\* the exemption without the fence and the table row: the faulty variant the
\* claim about structural lines is tested against
IsHeaderOnly(stripped) == StartsWith(stripped, "#")
IsStructuralLine(stripped) ==
    \/ StartsWith(stripped, "#")
    \/ StartsWith(stripped, Fence)
    \/ (StartsWith(stripped, "|") /\ EndsWith(stripped, "|"))

FinalCleanupDrops(line) ==
    LET stripped == Strip(line)
    IN \/ /\ stripped # ""
          /\ ContainsAny(Lower(stripped), final_cleanup_keywords)
          /\ ~IsStructuralLine(stripped)
       \/ Lower(stripped) = "glossary:"
       \/ (StartsWith(stripped, "-") /\ ContainsAny(Lower(stripped), glossary_brands))

_final_cleanup(text) ==
    LET lines == Split(text)
    IN Strip(Join(SelectIdx(lines, {i \in 1..Len(lines) : ~FinalCleanupDrops(lines[i])})))

\* "x and len(x) > 10" of the strategy chain
Usable(r) == r # "" /\ Len(r) > 10

\* "if cleaned_output != raw_output: raw_output = cleaned_output"
ThinkingApplied(raw_output, cleaned_output) ==
    IF cleaned_output # raw_output THEN cleaned_output ELSE raw_output

\* raw_output after "Strategy 0"
AfterThinking(raw_output) == ThinkingApplied(raw_output, _remove_thinking_tags(raw_output))

IsShortOutput(raw_output) == raw_output = "" \/ Len(Strip(raw_output)) < ShortOutputLen

\* the branch without thinking tags or reasoning: pattern cleaning, undone
\* when it leaves less than half (len(result) < original_length * 0.5)
SimpleClean(raw, res, original_length) ==
    IF 2 * Len(res) < original_length THEN _final_cleanup(raw) ELSE res

\* "Strategy 1" to "Strategy 3": separator, reverse search, pattern cleaning
StrategyChain(raw, separator_result, reverse_result) ==
    IF Usable(separator_result) THEN _final_cleanup(separator_result)
    ELSE IF Usable(reverse_result) THEN _final_cleanup(reverse_result)
    ELSE _final_cleanup(_clean_by_patterns(raw))

\* _clean_model_output after "Strategy 0", for chat and reasoning models
CleanAfterThinking(raw, original_length, had_thinking_tags) ==
    IF ~had_thinking_tags /\ ~_detect_reasoning(raw)
    THEN SimpleClean(raw, _final_cleanup(_clean_by_patterns(raw)), original_length)
    ELSE StrategyChain(raw, _clean_by_separator(raw), _clean_by_reverse_search(Split(raw)))

_clean_model_output(raw_output, mtype) ==
    IF IsShortOutput(raw_output) THEN raw_output
    ELSE IF mtype = "mt-like"
    THEN _final_cleanup(_remove_chinese_lines_from_bilingual(raw_output))
    ELSE CleanAfterThinking(AfterThinking(raw_output), Len(raw_output),
                            _remove_thinking_tags(raw_output) # raw_output)

\* an IndexError leaves the strategies (a line that is one digit)
CleanAfterThinkingRaises(raw, had_thinking_tags) ==
    \/ _detect_reasoning_raises(raw)
    \/ /\ ~_detect_reasoning_raises(raw)
       /\ IF ~had_thinking_tags /\ ~_detect_reasoning(raw)
          THEN _clean_by_patterns_raises(raw)
          ELSE \/ _clean_by_separator_raises(raw)
               \/ /\ ~_clean_by_separator_raises(raw)
                  /\ ~Usable(_clean_by_separator(raw))
                  /\ \/ _clean_by_reverse_search_raises(Split(raw))
                     \/ /\ ~_clean_by_reverse_search_raises(Split(raw))
                        /\ ~Usable(_clean_by_reverse_search(Split(raw)))
                        /\ _clean_by_patterns_raises(raw)

_clean_model_output_raises(raw_output, mtype) ==
    /\ ~IsShortOutput(raw_output)
    /\ mtype # "mt-like"
    /\ CleanAfterThinkingRaises(AfterThinking(raw_output),
                                _remove_thinking_tags(raw_output) # raw_output)

(***************************************************************************)
(* MarkdownTranslator: prompts, validation, translate().                   *)
(***************************************************************************)
ModelTypes == {"chat", "reasoning", "mt-like"}

\* The prompt text by model type.  The templates the prompt manager loads
\* (translation/base.md, translation/base_chat.md) are files outside the
\* source tree: each is stood for by its path.  No glossary is configured.
_build_mt_like_prompt ==
    "Translate the following Markdown document from Chinese to English.\n"
_build_complete_prompt(mtype) ==
    IF mtype = "reasoning" THEN "[translation/base.md]"
    ELSE IF mtype = "mt-like" THEN _build_mt_like_prompt
    ELSE "[translation/base_chat.md]"

\* the directive of _build_retry_prompt (its warning sign left out)
retry_instruction ==
    "\nIMPORTANT: You MUST translate ALL Chinese text to English.\n"
    \o "- Your output MUST be in English language\n"
    \o "- Do NOT repeat or copy the original Chinese text\n"
    \o "- Every Chinese character must be translated\n"

_build_retry_prompt(original_prompt) == retry_instruction \o "\n" \o original_prompt

\* a _translate_once that never strengthens the prompt
AttemptPromptPlain(mtype, att) == _build_complete_prompt(mtype)

\* the prompt _translate_once builds for an attempt
AttemptPrompt(mtype, att) ==
    IF att > 0 THEN _build_retry_prompt(_build_complete_prompt(mtype))
    ELSE _build_complete_prompt(mtype)

ValidRatioNum == 3            \* chinese_ratio < 0.3, as 10 * chinese < 3 * len

\* a validator that only rejects the empty candidate
ValidateNonEmpty(translated_text) == translated_text # ""

\* a validator that also accepts the candidate at exactly 0.3
ValidateAtMost(translated_text) ==
    IF translated_text = "" THEN FALSE
    ELSE RatioDen * ChineseCount(translated_text) <= ValidRatioNum * Len(translated_text)

\* a validator with the threshold of one half
ValidateBelowHalf(translated_text) ==
    IF translated_text = "" THEN FALSE
    ELSE 2 * ChineseCount(translated_text) < Len(translated_text)

_validate_translation(translated_text) ==
    IF translated_text = "" THEN FALSE
    ELSE RatioDen * ChineseCount(translated_text) < ValidRatioNum * Len(translated_text)

\* budgets one attempt too large
ChatRetriesPlusOne == 2 + 1
ReasoningRetriesPlusOne == 1 + 1

ChatRetries == 2
ReasoningRetries == 1
MtLikeRetries == 1
max_retries(mtype) ==
    IF mtype = "chat" THEN ChatRetries
    ELSE IF mtype = "reasoning" THEN ReasoningRetries
    ELSE MtLikeRetries

\* what the provider may return: up to MaxPieces fragments, concatenated
MaxPieces == 2
Pieces ==
    {"# Title\n\n", "Hello world.\n", "@@@@@@\n", "@@abc\n", "@@@",
     "<thinking>plan</thinking>", "1\n", "output only the text\n",
     "Translation:\n"}
RECURSIVE PieceTexts(_, _)
PieceTexts(pieces, n) ==
    IF n = 0 THEN {""}
    ELSE PieceTexts(pieces, n - 1)
         \cup {t \o p : t \in PieceTexts(pieces, n - 1), p \in pieces}
RawOutputs == PieceTexts(Pieces, MaxPieces)

\* the documents handed to translate(): source-script, and mostly target-script
SourceTexts == {"# @@\n\n@@@@@@", "# Title\n\nHello @@"}

TranslateIdle ==
    /\ model_type = "" /\ markdown_text = "" /\ attempt = 0 /\ calls = 0
    /\ prompts = <<>> /\ outcomes = <<>> /\ raw_result = "" /\ cleaned_result = ""
    /\ result = "" /\ pc = "idle" /\ returned = ""
ValidatorIdle == v_text = "" /\ v_valid = FALSE /\ v_pc = "idle"
ContractLocalsUnset ==
    /\ c_forced = "" /\ c_prefixed = "" /\ c_thinking = "" /\ c_answer = ""
    /\ c_echoed = "" /\ c_marked = "" /\ c_pruned = "" /\ c_full = ""
ContractIdle ==
    /\ c_source = "" /\ c_pass = 0 /\ c_raw = "" /\ ContractLocalsUnset
    /\ c_cleaned = "" /\ c_meta = <<>> /\ c_pc = "idle"
SegmenterIdle ==
    /\ s_text = "" /\ s_units = <<>> /\ s_sections = <<>> /\ s_joined = ""
    /\ s_pc = "idle"
ClassifierIdle == d_model = "" /\ d_provider = "" /\ d_type = "" /\ d_pc = "idle"
RewriteIdle ==
    /\ r_strategy = "" /\ r_source = "" /\ r_units = <<>> /\ r_rewritten = <<>>
    /\ r_warnings = <<>> /\ r_count = 0 /\ r_events = <<>> /\ r_result = ""
    /\ r_pc = "idle"
StageIdle == g_stage = "" /\ g_text = "" /\ g_out = "" /\ g_kept = {} /\ g_pc = "idle"
PromptIdle ==
    /\ p_type = "" /\ p_glossary = <<>> /\ p_chat_exists = FALSE /\ p_prompt = ""
    /\ p_pc = "idle"
AcceptIdle ==
    /\ q_validator = "" /\ q_original = "" /\ q_rewritten = "" /\ q_valid = FALSE
    /\ q_pc = "idle"
ApiIdle ==
    /\ job_storage = <<>> /\ a_responses = <<>> /\ a_tasks = <<>>
    /\ active_connections = <<>> /\ a_sockets = <<>>
LaterIdle == PromptIdle /\ AcceptIdle /\ ApiIdle
OthersIdle == SegmenterIdle /\ ClassifierIdle /\ RewriteIdle /\ StageIdle /\ LaterIdle
EarlierIdle ==
    /\ TranslateIdle /\ ValidatorIdle /\ ContractIdle /\ SegmenterIdle /\ ClassifierIdle
    /\ RewriteIdle /\ StageIdle

Init ==
    /\ model_type \in ModelTypes
    /\ markdown_text \in SourceTexts
    /\ attempt = 0 /\ calls = 0
    /\ prompts = <<>> /\ outcomes = <<>>
    /\ raw_result = "" /\ cleaned_result = "" /\ result = ""
    /\ pc = "loop" /\ returned = ""
    /\ ValidatorIdle /\ ContractIdle /\ OthersIdle

\* The rest of one iteration of translate()'s loop, once _translate_once has
\* returned res.  A retry clears the values of the finished attempt: they
\* are overwritten before anything reads them.
AfterAttempt(raised, raw, cleaned, res) ==
    IF model_type = "mt-like"
    THEN /\ outcomes' = Append(outcomes, [raised |-> raised, verdict |-> "unchecked"])
         /\ raw_result' = raw /\ cleaned_result' = cleaned /\ result' = res
         /\ returned' = res /\ pc' = "returned"
         /\ UNCHANGED attempt
    ELSE IF _validate_translation(res)
    THEN /\ outcomes' = Append(outcomes, [raised |-> raised, verdict |-> "valid"])
         /\ raw_result' = raw /\ cleaned_result' = cleaned /\ result' = res
         /\ returned' = res /\ pc' = "returned"
         /\ UNCHANGED attempt
    ELSE IF attempt < max_retries(model_type) - 1
    THEN /\ outcomes' = Append(outcomes, [raised |-> raised, verdict |-> "invalid"])
         /\ raw_result' = "" /\ cleaned_result' = "" /\ result' = ""
         /\ attempt' = attempt + 1
         /\ UNCHANGED <<returned, pc>>
    ELSE /\ outcomes' = Append(outcomes, [raised |-> raised, verdict |-> "invalid"])
         /\ raw_result' = raw /\ cleaned_result' = cleaned /\ result' = res
         /\ returned' = markdown_text /\ pc' = "returned"
         /\ UNCHANGED attempt

\* provider.translate is called with the attempt's prompt
CallProvider ==
    /\ pc = "loop"
    /\ attempt < max_retries(model_type)
    /\ calls' = calls + 1
    /\ prompts' = Append(prompts, AttemptPrompt(model_type, attempt))

\* "if not cleaned_result.strip(): return result": an empty cleaning gives
\* the raw output back
TranslateOnceResult(raw, cleaned) == IF Strip(cleaned) = "" THEN raw ELSE cleaned

\* the iteration continues with what _translate_once returns
AttemptCleaned(raw, cleaned) ==
    AfterAttempt(FALSE, raw, cleaned, TranslateOnceResult(raw, cleaned))

\* _translate_once when the provider returns raw: the output is cleaned
ProviderReturns(raw) ==
    /\ CallProvider
    /\ ~_clean_model_output_raises(raw, model_type)
    /\ AttemptCleaned(raw, _clean_model_output(raw, model_type))
    /\ UNCHANGED <<model_type, markdown_text, vvars, cvars, xvars>>

\* _translate_once when _clean_model_output raises: nothing catches it
CleaningCrashes(raw) ==
    /\ CallProvider
    /\ _clean_model_output_raises(raw, model_type)
    /\ raw_result' = raw /\ pc' = "crashed"
    /\ UNCHANGED <<model_type, markdown_text, attempt, outcomes, cleaned_result,
                   result, returned, vvars, cvars, xvars>>

\* _translate_once when provider.translate raises: it returns the input
ProviderRaises ==
    /\ CallProvider
    /\ AfterAttempt(TRUE, "", "", markdown_text)
    /\ UNCHANGED <<model_type, markdown_text, vvars, cvars, xvars>>

Next ==
    \/ \E raw \in RawOutputs : ProviderReturns(raw)
    \/ \E raw \in RawOutputs : CleaningCrashes(raw)
    \/ ProviderRaises

Spec == Init /\ [][Next]_vars

(***************************************************************************)
(* TranslationOutputContract (output_contract.py): the stages of           *)
(* parse_model_output.                                                     *)
(***************************************************************************)
ForcedSkipCap == 20           \* skip_count > 20 in _apply_forced_removal
GlossaryEntryMaxLen == 100    \* len(after_dash) < 100

\* the 1 Chinese-script entry of the source list is left out
forced_section_patterns ==
    {"critical output requirements", "important requirements",
     "translation task start", "translation task end", "glossary:",
     "terminology:", "use these translations for specific terms"}

directive_starts ==
    {"you must", "you must not", "you should", "do not", "remember",
     "note that", "translate the following", "you are a professional translator"}

\* the line opens a section to remove: skip mode starts and the line is dropped
OpensForcedSection(line) ==
    ~IsBlank(line) /\ ContainsAny(Lower(Strip(line)), forced_section_patterns)

\* the non-blank lines strictly between lines j and i
NonBlankBetween(lines, j, i) == {k \in (j + 1)..(i - 1) : ~IsBlank(lines[k])}

\* skip_until_next_header when the loop reaches line i, j being the last
\* line before i that opened a section (0: none): no header and at most 20
\* non-blank lines have been seen since
SkippingSince(lines, j, i) ==
    /\ j > 0
    /\ \A k \in NonBlankBetween(lines, j, i) : ~StartsWith(Strip(lines[k]), "#")
    /\ Cardinality(NonBlankBetween(lines, j, i)) <= ForcedSkipCap

LastSectionBefore(lines, i) ==
    LastOr({j \in 1..(i - 1) : OpensForcedSection(lines[j])}, 0)

\* "- key: value" shorter than 100 characters after the dash
LooksLikeGlossaryEntry(stripped) ==
    /\ StartsWith(stripped, "- ")
    /\ Contains(stripped, ": ")
    /\ Len(Strip(Slice(stripped, 3))) < GlossaryEntryMaxLen

\* the line is appended to cleaned_lines; j is the last section opener
\* before it
ForcedKeepsIn(lines, i, j) ==
    IF IsBlank(lines[i]) THEN ~SkippingSince(lines, j, i)
    ELSE IF OpensForcedSection(lines[i]) THEN FALSE
    ELSE IF SkippingSince(lines, j, i)
    THEN \/ StartsWith(Strip(lines[i]), "#")
         \/ Cardinality(NonBlankBetween(lines, j, i)) + 1 > ForcedSkipCap
    ELSE /\ ~StartsWithAny(Lower(Strip(lines[i])), directive_starts)
         /\ ~LooksLikeGlossaryEntry(Strip(lines[i]))

ForcedKeeps(lines, i) == ForcedKeepsIn(lines, i, LastSectionBefore(lines, i))

\* of a run of blank lines only the first is kept
CollapseBlankRuns(lines) ==
    SelectIdx(lines, {i \in 1..Len(lines) :
                         ~(IsBlank(lines[i]) /\ i > 1 /\ IsBlank(lines[i - 1]))})

_clean_whitespace(text) == Strip(Join(CollapseBlankRuns(Split(text))))

ForcedLines(lines) == SelectIdx(lines, {i \in 1..Len(lines) : ForcedKeeps(lines, i)})

_apply_forced_removal(text) ==
    IF text = "" THEN text
    ELSE _clean_whitespace(Join(ForcedLines(Split(text))))

\* first index >= p of s that holds no whitespace, Len(s) + 1 when none
SkipWs(s, p) == FirstOr({i \in p..Len(s) : CharAt(s, i) \notin Whitespace}, Len(s) + 1)

\* last "\n" of s within from..to, 0 when none
LastNewlineIn(s, from, to) == LastOr({i \in from..to : CharAt(s, i) = "\n"}, 0)

\* the phrases PREFIX_CLEANUP_PATTERNS match under re.IGNORECASE; the
\* Chinese-script patterns are left out
prefix_phrases ==
    {"here is the document", "here is the translated document",
     "here is the markdown document", "here is the translated markdown document",
     "here is the translation", "translation", "translated content"}

\* end of the match of ":?\s*\n" from index k of text (the index after the
\* phrase), 0 when it does not match: the whitespace run is taken up to its
\* last newline
PrefixTailEnd(text, k) == LastNewlineIn(text, k, SkipWs(text, k) - 1)

\* match.end() of "^phrase:?\s*\n" at the start of text, 0 when no match
PrefixMatchEnd(text, phrase) ==
    IF ~StartsWith(Lower(text), phrase) \/ Len(text) = Len(phrase) THEN 0
    ELSE IF CharAt(text, Len(phrase) + 1) = ":"
    THEN PrefixTailEnd(text, Len(phrase) + 2)
    ELSE PrefixTailEnd(text, Len(phrase) + 1)

\* text[match.end():] for the first pattern that matches
_remove_prefix_patterns(text) ==
    Slice(text, SetMax({PrefixMatchEnd(text, ph) : ph \in prefix_phrases}) + 1)

cls_remove_thinking_tags(text) ==
    DropBlankLines(
        RemoveSpans(
            RemoveSpans(
                RemoveSpans(text, "<thinking>", "</thinking>"),
                "<analysis>", "</analysis>"),
            "<reasoning>", "</reasoning>"))

\* ^ under re.MULTILINE
LineStart(s, p) == p = 1 \/ CharAt(s, p - 1) = "\n"

\* re.sub(r'^\s*TAG\s*\n*', '', s, flags=re.MULTILINE) from index from on;
\* low is s, or s lowered under re.IGNORECASE
RECURSIVE RemoveLineTag(_, _, _, _)
RemoveLineTagAt(s, low, tag, from, p) ==
    IF p = 0 THEN Slice(s, from)
    ELSE SubSeq(s, from, p - 1)
         \o RemoveLineTag(s, low, tag, SkipWs(s, SkipWs(s, p) + Len(tag)))
RemoveLineTag(s, low, tag, from) ==
    RemoveLineTagAt(s, low, tag, from,
        FirstOr({p \in from..Len(s) : LineStart(s, p) /\ MatchAt(low, tag, SkipWs(s, p))}, 0))

\* start of the whitespace run that ends before index k, not below from
WsRunStart(s, k, from) ==
    LastOr({i \in from..(k - 1) : CharAt(s, i) \notin Whitespace}, from - 1) + 1

\* last index taken by "\s*$" (re.MULTILINE) after a tag ending before index
\* k; -1 when "$" cannot match
CloseTagEnd(s, k) ==
    IF SkipWs(s, k) = Len(s) + 1 THEN Len(s)
    ELSE LastNewlineIn(s, k, SkipWs(s, k) - 1) - 1

\* re.sub(r'\s*TAG\s*$', '', s, flags=re.MULTILINE) from index from on
RECURSIVE RemoveCloseTag(_, _, _)
RemoveCloseTagAt(s, tag, from, k) ==
    IF k = 0 THEN Slice(s, from)
    ELSE SubSeq(s, from, WsRunStart(s, k, from) - 1)
         \o RemoveCloseTag(s, tag, CloseTagEnd(s, k + Len(tag)) + 1)
RemoveCloseTag(s, tag, from) ==
    RemoveCloseTagAt(s, tag, from,
        FirstOr({k \in from..Len(s) :
                    MatchAt(s, tag, k) /\ CloseTagEnd(s, k + Len(tag)) >= k + Len(tag) - 1}, 0))

AnswerOpenRemoved(text) == RemoveLineTag(text, text, "<answer>", 1)
AnswerCloseRemoved(text) == RemoveCloseTag(text, "</answer>", 1)
AssistantRemoved(text) == RemoveLineTag(text, Lower(text), "assistant>", 1)

_remove_answer_tags(text) ==
    DropBlankLines(AssistantRemoved(AnswerCloseRemoved(AnswerOpenRemoved(text))))

EchoScanLines == 50           \* min(50, len(lines)) and lines[:50]
EchoNextLongLen == 80         \* len(next_line) > 80
EchoContentLen == 30          \* len(line) > 30
EchoMarkedLen == 20           \* ... and len(line) > 20
EchoMinResultLen == 20        \* len(result) > 20
EchoMaxRemoved == 20          \* removed_count < 20
MarkerMinResultLen == 20      \* len(result) > 20 in _extract_from_start_marker
SubstantialLen == 40          \* len(stripped) > 40
FirstContentLines == 3        \* i < 3
OverAggressiveNum == 3        \* len(cleaned) < original_length * 0.3

\* the 4 Chinese-script entries of the source list are left out
NON_CONTENT_PATTERNS ==
    {"you are a professional translator", "translate all chinese text",
     "important requirements:", "preserve all markdown formatting",
     "terminology constraints:", "do not translate:", "variable names",
     "brand names in english", "i will translate", "let me translate",
     "step 1:", "step 2:", "translation strategy:", "here is my plan"}

\* the Markdown markers of looks_like_content ("~~~" is the code fence)
echo_content_markers == {Fence, "**", "*", "[", "]"}

EchoLooksLikeContent(line) ==
    \/ StartsWith(line, "#")
    \/ Len(line) > EchoContentLen
    \/ (ContainsAny(line, echo_content_markers) /\ Len(line) > EchoMarkedLen)

\* after a blank line that follows instruction lines: one of the next two
\* lines is a header or longer than 80 characters
EchoBoundaryAhead(lines, i) ==
    \E j \in (i + 1)..Min(i + 2, Len(lines)) :
        /\ ~IsBlank(lines[j])
        /\ (StartsWith(Strip(lines[j]), "#") \/ Len(Strip(lines[j])) > EchoNextLongLen)

\* The scan of _remove_instruction_echo_at_start from line i (1-based) on:
\* the final content_start_idx (the number of lines to drop), or -1 when
\* line[1] raises IndexError on a line that is one digit.
RECURSIVE EchoScan(_, _, _, _)
EchoScan(lines, i, content_start_idx, consecutive) ==
    IF i > Min(EchoScanLines, Len(lines)) THEN content_start_idx
    ELSE IF IsBlank(lines[i])
    THEN IF consecutive > 0
         THEN IF EchoBoundaryAhead(lines, i) THEN i ELSE content_start_idx
         ELSE EchoScan(lines, i + 1, content_start_idx, consecutive)
    ELSE IF ContainsAny(Lower(Strip(lines[i])), NON_CONTENT_PATTERNS)
    THEN EchoScan(lines, i + 1, i, consecutive + 1)
    ELSE IF NumberedRaises(Strip(lines[i])) THEN -1
    ELSE IF EchoLooksLikeContent(Strip(lines[i])) /\ ~IsNumbered(Strip(lines[i]))
    THEN content_start_idx
    ELSE IF consecutive >= 2 THEN EchoScan(lines, i + 1, i, consecutive)
    ELSE content_start_idx

\* the text and the flag _remove_instruction_echo_at_start returns, for the
\* content_start_idx its scan ended with
EchoRemoves(lines, content_start_idx) ==
    /\ content_start_idx > 0
    /\ Len(Strip(Join(SubSeq(lines, content_start_idx + 1, Len(lines))))) > EchoMinResultLen
    /\ content_start_idx < EchoMaxRemoved

EchoResult(text, lines, content_start_idx) ==
    IF EchoRemoves(lines, content_start_idx)
    THEN Strip(Join(SubSeq(lines, content_start_idx + 1, Len(lines))))
    ELSE text

_remove_instruction_echo_at_start(text) ==
    EchoResult(text, Split(text), EchoScan(Split(text), 1, 0, 0))
removed_intro(text) == EchoRemoves(Split(text), EchoScan(Split(text), 1, 0, 0))
_remove_instruction_echo_at_start_raises(text) == EchoScan(Split(text), 1, 0, 0) = -1

\* the 3 Chinese-script entries of the source list are left out
CONTENT_START_MARKERS ==
    {"translation:", "translated content:", "here is the translation:",
     "below is the translation:"}

\* the marker line is followed by more than 20 characters of content
MarkerAt(lines, i) ==
    /\ StartsWithAny(Lower(Strip(lines[i])), CONTENT_START_MARKERS)
    /\ Len(TailFrom(lines, i + 1)) > MarkerMinResultLen

\* the first line that is a usable marker, 0 when there is none
MarkerLine(lines) == FirstOr({i \in 1..(Len(lines) - 1) : MarkerAt(lines, i)}, 0)

MarkerResult(text, lines, i) == IF i = 0 THEN text ELSE TailFrom(lines, i + 1)

_extract_from_start_marker(text) == MarkerResult(text, Split(text), MarkerLine(Split(text)))

\* the marker returned with the text, "" for None
MarkerName(line) == CHOOSE m \in CONTENT_START_MARKERS : StartsWith(Lower(Strip(line)), m)
MarkerFound(lines, i) == IF i = 0 THEN "" ELSE MarkerName(lines[i])
start_marker(text) == MarkerFound(Split(text), MarkerLine(Split(text)))

prompt_artifact_keywords ==
    {"variable names", "brand names in english", "preserve all",
     "do not translate:", "output only", "terminology constraints:",
     "you must use the following", "when the chinese term appears",
     "specified english translation", "do not paraphrase",
     "if a term in the glossary"}

IsPromptArtifact(line) ==
    /\ ~IsBlank(line)
    /\ ContainsAny(Lower(Strip(line)), prompt_artifact_keywords)
    /\ ~IsStructuralLine(Strip(line))

ArtifactFreeLines(lines) ==
    SelectIdx(lines, {i \in 1..Len(lines) : ~IsPromptArtifact(lines[i])})

_remove_prompt_artifacts(text) == Strip(Join(ArtifactFreeLines(Split(text))))

\* SKIP_PATTERNS, searched with re.IGNORECASE ('===' is covered by '=')
SKIP_PATTERNS ==
    {"important", "critical", "requirements", "translation task", "glossary:",
     "terminology:", "you are", "translate the", "="}

\* ^\d+\. : the line opens with digits followed by ". "
DigitRunEnd(st) == FirstOr({k \in 1..Len(st) : CharAt(st, k) \notin Digits}, Len(st) + 1) - 1
StartsNumberedItem(st) == DigitRunEnd(st) >= 1 /\ MatchAt(st, ". ", DigitRunEnd(st) + 1)

\* VALID_CONTENT_START_PATTERNS
IsValidStart(st) ==
    \/ StartsWithAny(st, {"# ", "## ", "### ", "* ", "- ", Fence})
    \/ StartsNumberedItem(st)

\* the line at i (1-based) ends the scan of _enforce_content_start
IsContentStart(lines, i) ==
    /\ ~IsBlank(lines[i])
    /\ ~ContainsAny(Lower(Strip(lines[i])), SKIP_PATTERNS)
    /\ \/ IsValidStart(Strip(lines[i]))
       \/ Len(Strip(lines[i])) > SubstantialLen
       \/ i <= FirstContentLines

\* content_start_idx + 1, 0 when no line qualifies
ContentStartLine(lines) ==
    FirstOr({i \in 1..Min(EchoScanLines, Len(lines)) : IsContentStart(lines, i)}, 0)

content_start_detected(text) == text # "" /\ ContentStartLine(Split(text)) > 0

\* a scan that gives up the text when it finds no start: the faulty variant
\* the claim about a failed enforcement is tested against
EnforceOrDiscard(text) ==
    IF content_start_detected(text)
    THEN TailFrom(Split(text), ContentStartLine(Split(text)))
    ELSE ""
_enforce_content_start(text) ==
    IF content_start_detected(text)
    THEN TailFrom(Split(text), ContentStartLine(Split(text)))
    ELSE text

_minimal_cleanup(text) == Strip(_remove_prefix_patterns(cls_remove_thinking_tags(text)))

\* len(cleaned) < original_length * 0.3, as 10 * len(cleaned) < 3 * original_length
TooShort(cleaned, raw_output) == RatioDen * Len(cleaned) < OverAggressiveNum * Len(raw_output)

\* "if not metadata.get('forced_removal_applied') and len(cleaned) < ...":
\* forced is the flag, set when step 0 changed the text
OverAggressive(forced, cleaned, raw_output) == ~forced /\ TooShort(cleaned, raw_output)

\* metadata["removed_prefix"] ("" for None) from the values of "cleaned"
\* after steps 1, 2.5 and 3
removed_prefix(raw_output, prefixed, answer, echoed) ==
    IF start_marker(echoed) # "" THEN "marker:" \o start_marker(echoed)
    ELSE IF removed_intro(answer) THEN "instruction_echo"
    ELSE IF prefixed # raw_output THEN "pattern_match"
    ELSE ""

validation_errors(raw_output, forced, pruned, full) ==
    (IF content_start_detected(pruned) THEN {} ELSE {"no_valid_content_start"})
    \cup (IF OverAggressive(forced # raw_output, full, raw_output)
          THEN {"over_aggressive_cleaning"} ELSE {})

\* what "cleaned" is after the guard
Guarded(raw_output, forced, full) ==
    IF OverAggressive(forced # raw_output, full, raw_output)
    THEN _minimal_cleanup(raw_output)
    ELSE full

(***************************************************************************)
(* parse_model_output on its own, applied to a model output and then to    *)
(* its own result (specification ContractSpec).                            *)
(***************************************************************************)
MaxContractPieces == 2
ContractPieces ==
    {"<thinking>plan...</thinking>", "# Title\n\nHello", "Hello world.\n",
     "please output only the translation\n", "output only the text\n", "1\n",
     "Translation:\n", "xxxxxxxx\n", "glossary:\n", "\n", "a = b\n",
     "  \n# T", "You must translate\n"}
\* texts whose first header comes after a run of lines that
\* _enforce_content_start skips, at the end and past the end of its scan
MaxSkippedLines == 50
Repeat(line, n) == [i \in 1..n |-> line]
LateStartTexts ==
    {Join(Repeat("a = b", n) \o <<"# T">>) : n \in (EchoScanLines - 1)..MaxSkippedLines}
ContractInputs == PieceTexts(ContractPieces, MaxContractPieces) \cup LateStartTexts

ContractInit ==
    /\ TranslateIdle /\ ValidatorIdle /\ OthersIdle
    /\ c_source \in ContractInputs
    /\ c_raw = c_source /\ c_pass = 1
    /\ ContractLocalsUnset
    /\ c_cleaned = "" /\ c_meta = <<>>
    /\ c_pc = "start"

\* "if not raw_output: return '', {...}"
ParseEmpty ==
    /\ c_pc = "start"
    /\ c_raw = ""
    /\ c_cleaned' = ""
    /\ c_meta' = [status |-> "empty", original_length |-> 0]
    /\ c_pc' = "parsed"
    /\ UNCHANGED <<c_source, c_pass, c_raw, clocals, tvars, vvars, xvars>>

\* steps 0 to 2.5 of parse_model_output
ParseTags ==
    /\ c_forced' = _apply_forced_removal(c_raw)
    /\ c_prefixed' = _remove_prefix_patterns(c_forced')
    /\ c_thinking' = cls_remove_thinking_tags(c_prefixed')
    /\ c_answer' = _remove_answer_tags(c_thinking')

\* parse_model_output(c_raw) on a non-empty text, from step 0 to its return
\* (the metadata keys "removed_suffix" and "forced_removal Applied" never
\* change and are left out)
Parse ==
    /\ c_pc = "start"
    /\ c_raw # ""
    /\ ParseTags
    /\ ~_remove_instruction_echo_at_start_raises(c_answer')
    /\ c_echoed' = _remove_instruction_echo_at_start(c_answer')
    /\ c_marked' = _extract_from_start_marker(c_echoed')
    /\ c_pruned' = _remove_prompt_artifacts(c_marked')
    /\ c_full' = _enforce_content_start(c_pruned')
    /\ c_cleaned' = Guarded(c_raw, c_forced', c_full')
    /\ c_meta' = [status |-> IF c_cleaned' = "" THEN "empty" ELSE "cleaned",
                  original_length |-> Len(c_raw),
                  cleaned_length |-> Len(c_cleaned'),
                  removed_prefix |-> removed_prefix(c_raw, c_prefixed', c_answer', c_echoed'),
                  has_chinese |-> ChineseCount(c_full') > 0,
                  validation_errors |-> validation_errors(c_raw, c_forced', c_pruned', c_full'),
                  forced_removal_applied |-> c_forced' # c_raw]
    /\ c_pc' = "parsed"
    /\ UNCHANGED <<c_source, c_pass, c_raw, tvars, vvars, xvars>>

\* the same call, left in step 3 by the IndexError of line[1] on a line that
\* is one digit
ParseCrashes ==
    /\ c_pc = "start"
    /\ c_raw # ""
    /\ ParseTags
    /\ _remove_instruction_echo_at_start_raises(c_answer')
    /\ c_pc' = "crashed"
    /\ UNCHANGED <<c_source, c_pass, c_raw, c_echoed, c_marked, c_pruned, c_full,
                   c_cleaned, c_meta, tvars, vvars, xvars>>

\* the returned text is handed to parse_model_output again
ParseAgain ==
    /\ c_pc = "parsed"
    /\ c_pass = 1
    /\ c_raw' = c_cleaned
    /\ c_pass' = 2
    /\ c_pc' = "start"
    /\ UNCHANGED <<c_source, clocals, c_cleaned, c_meta, tvars, vvars, xvars>>

ContractNext == ParseEmpty \/ Parse \/ ParseCrashes \/ ParseAgain

ContractSpec == ContractInit /\ [][ContractNext]_vars

(***************************************************************************)
(* _validate_translation on its own (specification ValidatorSpec): every   *)
(* candidate of up to MaxCandLen characters, each a Chinese character or   *)
(* a letter.                                                               *)
(***************************************************************************)
MaxCandLen == 10
CandidateChars == {"a", "@"}
Candidates == PieceTexts(CandidateChars, MaxCandLen)

ValidatorInit ==
    /\ TranslateIdle /\ ContractIdle /\ OthersIdle
    /\ v_text \in Candidates
    /\ v_valid = FALSE
    /\ v_pc = "start"

\* is_valid = self._validate_translation(v_text)
Validate ==
    /\ v_pc = "start"
    /\ v_valid' = _validate_translation(v_text)
    /\ v_pc' = "done"
    /\ UNCHANGED <<v_text, tvars, cvars, xvars>>

ValidatorNext == Validate

ValidatorSpec == ValidatorInit /\ [][ValidatorNext]_vars

(***************************************************************************)
(* Properties of translate() (specification Spec).                         *)
(***************************************************************************)

\* the last attempt of a translate() that returned got its text from the
\* provider (the provider did not raise)
LastAttemptCleaned ==
    pc = "returned" /\ Len(outcomes) > 0 /\ ~outcomes[Len(outcomes)].raised

\* C1: a chat translation whose candidate fails validation on the first
\* attempt and again on the retry has returned the original text, after
\* exactly two provider calls.
ChatFailsTwiceFallsBack ==
    (/\ model_type = "chat"
     /\ Len(outcomes) = 2
     /\ outcomes[1].verdict = "invalid"
     /\ outcomes[2].verdict = "invalid")
    => (pc = "returned" /\ returned = markdown_text /\ calls = 2)

ChatFailsTwiceReached ==
    /\ model_type = "chat"
    /\ Len(outcomes) = 2
    /\ outcomes[1] = [raised |-> FALSE, verdict |-> "invalid"]
    /\ outcomes[2] = [raised |-> FALSE, verdict |-> "invalid"]
    /\ result # markdown_text
    /\ returned = markdown_text
    /\ calls = 2

\* C2: once the provider raises on an attempt, no further provider call is
\* issued, and translate() returns the original text.
RaiseEndsInFallback ==
    \A i \in 1..Len(outcomes) :
        outcomes[i].raised
            => (calls = i /\ (pc = "returned" => returned = markdown_text))

\* C3: the number of provider calls never exceeds the budget of the model
\* type: 2 for chat, 1 for reasoning, 1 for mt-like.
CallsWithinBudget ==
    /\ calls <= (IF model_type = "chat" THEN 2 ELSE 1)
    /\ Len(prompts) = calls

BudgetExhausted ==
    /\ model_type = "chat" /\ calls = 2 /\ pc = "returned"
    /\ outcomes[2].verdict = "valid"

\* C4 (chat and reasoning): when the candidate of the last attempt fails
\* validation (30% or more of its characters are Chinese), translate()
\* returns the original text.
FailedCandidateFallsBack ==
    (/\ model_type \in {"chat", "reasoning"}
     /\ pc = "returned"
     /\ result # ""
     /\ 10 * ChineseCount(result) >= 3 * Len(result))
    => returned = markdown_text

FailedCandidateReached ==
    /\ model_type = "reasoning"
    /\ LastAttemptCleaned
    /\ result # "" /\ 10 * ChineseCount(result) >= 3 * Len(result)
    /\ result # markdown_text
    /\ returned = markdown_text

\* C4 as stated, for every model type, mt-like included.
FailedCandidateFallsBackAnyType ==
    (/\ pc = "returned"
     /\ result # ""
     /\ 10 * ChineseCount(result) >= 3 * Len(result))
    => returned = markdown_text

\* C27: under the chat and the reasoning type, what translate() returns is
\* the original text or a text of which less than 30% of the characters are
\* Chinese, whatever the provider returned or raised on each attempt.
ReturnedIsOriginalOrValid ==
    (model_type \in {"chat", "reasoning"} /\ pc = "returned")
    => \/ returned = markdown_text
       \/ /\ returned # ""
          /\ 10 * ChineseCount(returned) < 3 * Len(returned)

\* a chat translation returned the candidate of its retry, which holds some
\* Chinese characters, after the first candidate had failed
RetryCandidateReturned ==
    /\ model_type = "chat" /\ pc = "returned"
    /\ Len(outcomes) = 2 /\ outcomes[1].verdict = "invalid"
    /\ returned # markdown_text
    /\ ChineseCount(returned) > 0

\* C5: the first provider call uses the prompt of the model type, without
\* the retry directive; every later call follows a failed validation and
\* uses the retry directive prepended to that same prompt.
RetryUsesStrengthenedPrompt ==
    \A i \in 1..Len(prompts) :
        IF i = 1
        THEN /\ prompts[i] = _build_complete_prompt(model_type)
             /\ ~Contains(prompts[i], "You MUST translate ALL Chinese text")
        ELSE /\ outcomes[i - 1].verdict = "invalid"
             /\ prompts[i] = retry_instruction \o "\n" \o _build_complete_prompt(model_type)
             /\ Contains(prompts[i], "You MUST translate ALL Chinese text")

RetryCallReached ==
    /\ Len(prompts) = 2
    /\ outcomes[1] = [raised |-> FALSE, verdict |-> "invalid"]

\* The bilingual filter on the lines of the provider output, seen in the
\* cleaned text: a non-blank line with more than 40% Chinese characters
\* (counted against the length of the stripped line) is absent, and a line
\* at exactly 40% that no artifact rule drops is present.
BilingualFilterSeen ==
    \A i \in 1..Len(Split(raw_result)) :
        /\ (/\ ~IsBlank(Split(raw_result)[i])
            /\ 10 * ChineseCount(Split(raw_result)[i])
                   > 4 * Len(Strip(Split(raw_result)[i])))
           => Strip(Split(raw_result)[i]) \notin
                  {Strip(Split(cleaned_result)[j]) : j \in 1..Len(Split(cleaned_result))}
        /\ (/\ ~IsBlank(Split(raw_result)[i])
            /\ 10 * ChineseCount(Split(raw_result)[i])
                   = 4 * Len(Strip(Split(raw_result)[i]))
            /\ ~FinalCleanupDrops(Split(raw_result)[i]))
           => Strip(Split(raw_result)[i]) \in
                  {Strip(Split(cleaned_result)[j]) : j \in 1..Len(Split(cleaned_result))}

\* C7 (provider output of 10 or more characters once stripped): under
\* mt-like, every non-blank line with a Chinese ratio above 0.4 is absent
\* from the cleaned output, and a line at exactly 0.4 that matches no
\* artifact phrase is retained.
BilingualLinesFiltered ==
    (/\ model_type = "mt-like"
     /\ LastAttemptCleaned
     /\ Len(Strip(raw_result)) >= 10)
    => BilingualFilterSeen

BilingualLinesReached ==
    /\ model_type = "mt-like"
    /\ LastAttemptCleaned
    /\ raw_result = "@@@@@@\n@@abc\n"
    /\ cleaned_result = "@@abc"

\* C7 as stated, for a provider output of any length.
BilingualLinesFilteredAnyLength ==
    (model_type = "mt-like" /\ LastAttemptCleaned) => BilingualFilterSeen

(***************************************************************************)
(* Properties of parse_model_output (specification ContractSpec).          *)
(***************************************************************************)

\* C8: a raw output that is a reasoning-tag span followed by content is
\* cleaned to exactly that content, the blank line between its lines kept:
\* "<thinking>plan...</thinking># Title\n\nHello" gives "# Title\n\nHello".
ReasoningSpanLeavesContent ==
    (c_pass = 1 /\ c_pc = "parsed"
     /\ c_source = "<thinking>plan...</thinking># Title\n\nHello")
    => c_cleaned = "# Title\n\nHello"

\* the line carries one of the artifacts stages 1 to 8 of the sanitizer
\* remove: a section opener, a directive, a glossary entry, a lead-in
\* phrase, a reasoning or answer tag, an instruction-echo phrase, a start
\* marker, an artifact phrase
CarriesArtifact(line) ==
    \/ OpensForcedSection(line)
    \/ StartsWithAny(Lower(Strip(line)), directive_starts)
    \/ LooksLikeGlossaryEntry(Strip(line))
    \/ StartsWithAny(Lower(Strip(line)), prefix_phrases)
    \/ ContainsAny(Lower(line), {"<thinking>", "</thinking>", "<analysis>", "</analysis>",
                                 "<reasoning>", "</reasoning>", "<answer>", "</answer>",
                                 "assistant>"})
    \/ ContainsAny(Lower(line), NON_CONTENT_PATTERNS)
    \/ StartsWithAny(Lower(Strip(line)), CONTENT_START_MARKERS)
    \/ ContainsAny(Lower(line), prompt_artifact_keywords)

ArtifactFree(text) == \A i \in 1..Len(Split(text)) : ~CarriesArtifact(Split(text)[i])

\* C9: parse_model_output applied to its own cleaned result returns that
\* text unchanged; stated for the texts that carry no instruction or
\* reasoning artifact, the case the sanitizer's idempotence is promised for.
IdempotentOnArtifactFreeText ==
    (c_pass = 2 /\ c_pc = "parsed" /\ ArtifactFree(c_source)) => c_cleaned = c_raw

\* stage 1 fired: a line of the raw output opened an instruction/glossary
\* section
SectionRemoved(raw_output) ==
    \E i \in 1..Len(Split(raw_output)) : OpensForcedSection(Split(raw_output)[i])

\* C10: when the result of the full pipeline is shorter than 30% of the raw
\* output and forced block removal removed no section, the call returns the
\* minimal cleanup of the raw output, not the short result.
GuardRestoresMinimalCleanup ==
    (c_pc = "parsed" /\ c_raw # "" /\ TooShort(c_full, c_raw) /\ ~SectionRemoved(c_raw))
    => c_cleaned = _minimal_cleanup(c_raw)

(***************************************************************************)
(* Properties of _validate_translation (specification ValidatorSpec).      *)
(***************************************************************************)

\* C6: the validator accepts a non-empty candidate exactly when the number
\* of Chinese characters over the candidate's length is strictly below
\* 0.30: 3 Chinese characters out of 10 are rejected.
ValidatorAcceptsBelowThreshold ==
    (v_pc = "done" /\ v_text # "")
    => /\ v_valid
           <=> 10 * Cardinality({i \in 1..Len(v_text) : SubSeq(v_text, i, i) = "@"})
                   < 3 * Len(v_text)
       /\ (Len(v_text) = 10
           /\ Cardinality({i \in 1..Len(v_text) : SubSeq(v_text, i, i) = "@"}) = 3)
          => ~v_valid

ValidatorBoundaryReached ==
    /\ v_pc = "done"
    /\ v_text = "aa@aa@aa@a"
    /\ ~v_valid

(***************************************************************************)
(* The segmenters: TranslationOrientedRewriteStrategy                      *)
(* ._parse_translation_units (translation_oriented.py) and                 *)
(* MarkdownParser.parse (markdown_utils.py); specification SegmenterSpec.  *)
(***************************************************************************)
ParagraphLen == 50               \* len(unit_stripped) > 50

\* line.count('|'), unit.count('`')
CountOf(s, c) == Cardinality({k \in 1..Len(s) : CharAt(s, k) = c})

\* re.match(r'^\d+\.', st)
StartsDigitsDot(st) == DigitRunEnd(st) >= 1 /\ MatchAt(st, ".", DigitRunEnd(st) + 1)

\* st.startswith(('-', '*', '+')) or re.match(r'^\d+\.', st)
StartsListMarker(st) == StartsWithAny(st, {"-", "*", "+"}) \/ StartsDigitsDot(st)

\* the test that keeps a line in the list block being collected
ContinuesList(line) == StartsListMarker(Strip(line)) \/ StartsWith(Strip(line), "  ")

\* the test that ends the paragraph being collected
ParagraphStops(next_line) ==
    \/ StartsWith(Strip(next_line), "#")
    \/ StartsWith(Strip(next_line), Fence)
    \/ StartsWithAny(Strip(next_line), {"-", "*", "+"})
    \/ StartsWith(Strip(next_line), ">")
    \/ StartsDigitsDot(Strip(next_line))
    \/ (Strip(next_line) # "" /\ CountOf(next_line, "|") >= 2)
    \/ Strip(next_line) = ""

\* a code block that ends at its fence line when no closing fence follows
CodeUnitEndAtFence(lines, i) ==
    FirstOr({j \in (i + 1)..Len(lines) : StartsWith(Strip(lines[j]), Fence)}, i)

\* index (1-based) of the last line of the code block opened at line i: the
\* next fence line, or the last line of the document when there is none
CodeUnitEnd(lines, i) ==
    FirstOr({j \in (i + 1)..Len(lines) : StartsWith(Strip(lines[j]), Fence)}, Len(lines))
ListUnitEnd(lines, i) ==
    FirstOr({j \in (i + 1)..Len(lines) : ~ContinuesList(lines[j])}, Len(lines) + 1) - 1
ParagraphUnitEnd(lines, i) ==
    FirstOr({j \in (i + 1)..Len(lines) : ParagraphStops(lines[j])}, Len(lines) + 1) - 1

\* index of the last line of the unit that starts at line i
UnitEnd(lines, i) ==
    IF StartsWith(Strip(lines[i]), Fence) THEN CodeUnitEnd(lines, i)
    ELSE IF StartsWith(Strip(lines[i]), "#") THEN i
    ELSE IF StartsListMarker(Strip(lines[i])) THEN ListUnitEnd(lines, i)
    ELSE IF StartsWith(Strip(lines[i]), ">") THEN i
    ELSE IF CountOf(lines[i], "|") >= 2 THEN i
    ELSE IF Strip(lines[i]) = "" THEN i
    ELSE ParagraphUnitEnd(lines, i)

RECURSIVE UnitsFrom(_, _)
UnitsFrom(lines, i) ==
    IF i > Len(lines) THEN <<>>
    ELSE <<Join(SubSeq(lines, i, UnitEnd(lines, i)))>>
         \o UnitsFrom(lines, UnitEnd(lines, i) + 1)

_parse_translation_units(text) == UnitsFrom(Split(text), 1)

\* the units put together with a blank line between them
RECURSIVE JoinBlankLine(_)
JoinBlankLine(units) ==
    IF Len(units) = 0 THEN ""
    ELSE IF Len(units) = 1 THEN units[1]
    ELSE units[1] \o "\n\n" \o JoinBlankLine(Tail(units))

_reconstruct_document(units) == Join(units)

_determine_section_type(unit) ==
    IF Strip(unit) = "" THEN "empty"
    ELSE IF StartsWith(Strip(unit), Fence) THEN "code_block"
    ELSE IF StartsWith(Strip(unit), "#") THEN "header"
    ELSE IF StartsWithAny(Strip(unit), {"-", "*", "+"}) THEN "list_item"
    ELSE IF StartsWithAny(Strip(unit), {"1.", "2.", "3.", "4.", "5.", "6.", "7.", "8.", "9."})
         THEN "numbered_list"
    ELSE IF StartsWith(Strip(unit), ">") THEN "blockquote"
    ELSE IF CountOf(unit, "|") >= 2 THEN "table_row"
    ELSE IF StartsWith(Strip(unit), "![") THEN "image"
    ELSE IF Contains(Strip(unit), "](") THEN "link"
    ELSE IF CountOf(unit, "~") >= 2 THEN "inline_code"
    ELSE IF Len(Strip(unit)) > ParagraphLen THEN "paragraph"
    ELSE "text"

\* MarkdownParser.patterns, as re.match / re.search apply them
HashRun(s) == FirstOr({k \in 1..Len(s) : CharAt(s, k) # "#"}, Len(s) + 1) - 1
MaxHeaderLevel == 6              \* '^(#{1,6})\s+'
header_pattern(s) ==
    /\ HashRun(s) >= 1 /\ HashRun(s) <= MaxHeaderLevel
    /\ HashRun(s) < Len(s) /\ CharAt(s, HashRun(s) + 1) \in Whitespace
code_block_pattern(s) == StartsWith(s, Fence)
LeadingSpace(s) == FirstOr({k \in 1..Len(s) : CharAt(s, k) \notin Whitespace}, Len(s) + 1) - 1
\* '^(\s*)([-*+]|\d+\.)\s+'
list_item_pattern(s) ==
    \/ /\ LeadingSpace(s) + 2 <= Len(s)
       /\ CharAt(s, LeadingSpace(s) + 1) \in {"-", "*", "+"}
       /\ CharAt(s, LeadingSpace(s) + 2) \in Whitespace
    \/ /\ StartsDigitsDot(Slice(s, LeadingSpace(s) + 1))
       /\ LeadingSpace(s) + DigitRunEnd(Slice(s, LeadingSpace(s) + 1)) + 2 <= Len(s)
       /\ CharAt(s, LeadingSpace(s) + DigitRunEnd(Slice(s, LeadingSpace(s) + 1)) + 2)
              \in Whitespace
blockquote_pattern(s) == StartsWith(s, ">")
\* '^\|.*\|' : '.' does not cross a newline
table_pattern(s) ==
    /\ StartsWith(s, "|")
    /\ \E k \in 2..Len(s) : CharAt(s, k) = "|" /\ ~Contains(SubSeq(s, 1, k), "\n")
empty_pattern(s) == IsBlank(s)
\* '\[.*?\]\([^)]+\)' with a "[" at a, and '!\[.*?\]\([^)]+\)'
LinkFrom(s, a) ==
    \E b \in (a + 1)..Len(s) :
        /\ MatchAt(s, "](", b)
        /\ ~Contains(SubSeq(s, a + 1, b - 1), "\n")
        /\ \E c \in (b + 3)..Len(s) :
               CharAt(s, c) = ")" /\ ~Contains(SubSeq(s, b + 2, c - 1), ")")
link_pattern(s) == \E a \in 1..Len(s) : CharAt(s, a) = "[" /\ LinkFrom(s, a)
image_pattern(s) == \E a \in 1..Len(s) : MatchAt(s, "![", a) /\ LinkFrom(s, a + 1)
\* '`[^`]+`'
inline_code_pattern(s) ==
    \E a \in 1..Len(s) : \E c \in (a + 2)..Len(s) :
        CharAt(s, a) = "~" /\ CharAt(s, c) = "~" /\ ~Contains(SubSeq(s, a + 1, c - 1), "~")

\* line_index is 0-based, as in the code
_is_continuation_line(lines, line_index) ==
    /\ line_index # 0
    /\ list_item_pattern(Strip(lines[line_index]))
    /\ StartsWithAny(lines[line_index + 1], {"  ", "\t"})

_is_structural_line(line) ==
    \/ header_pattern(line) \/ code_block_pattern(line) \/ list_item_pattern(line)
    \/ blockquote_pattern(line) \/ table_pattern(line) \/ empty_pattern(line)

_detect_content_type(content) ==
    IF image_pattern(content) THEN "image"
    ELSE IF link_pattern(content) THEN "link"
    ELSE IF inline_code_pattern(content) THEN "inline_code"
    ELSE IF blockquote_pattern(Split(content)[1]) THEN "blockquote"
    ELSE IF table_pattern(Split(content)[1]) THEN "table"
    ELSE IF Strip(content) = "" THEN "empty"
    ELSE "paragraph"

\* the branch parse() takes at the 0-based line current_line
SectionBranch(lines, current_line) ==
    IF code_block_pattern(Strip(lines[current_line + 1])) THEN "code_block"
    ELSE IF header_pattern(Strip(lines[current_line + 1])) THEN "header"
    ELSE IF \/ list_item_pattern(Strip(lines[current_line + 1]))
            \/ (current_line > 0 /\ _is_continuation_line(lines, current_line))
         THEN "list_item"
    ELSE "paragraph"

\* line_end of the section each _parse_* builds from start_line (0-based);
\* _parse_code_block leaves it at len(lines) when no closing fence follows
CodeBlockLineEnd(lines, start_line) ==
    FirstOr({i \in (start_line + 1)..(Len(lines) - 1) :
                code_block_pattern(Strip(lines[i + 1]))}, Len(lines))
ListItemsLineEnd(lines, start_line) ==
    FirstOr({i \in (start_line + 1)..(Len(lines) - 1) :
                ~(list_item_pattern(Strip(lines[i + 1])) \/ _is_continuation_line(lines, i))},
            Len(lines)) - 1
ParagraphLineEnd(lines, start_line) ==
    FirstOr({i \in (start_line + 1)..(Len(lines) - 1) :
                ~(Strip(lines[i + 1]) # "" /\ ~_is_structural_line(Strip(lines[i + 1])))},
            Len(lines)) - 1
SectionLineEnd(lines, branch, start_line) ==
    IF branch = "code_block" THEN CodeBlockLineEnd(lines, start_line)
    ELSE IF branch = "header" THEN start_line
    ELSE IF branch = "list_item" THEN ListItemsLineEnd(lines, start_line)
    ELSE ParagraphLineEnd(lines, start_line)

SectionContent(lines, start_line, line_end) ==
    Join(SubSeq(lines, start_line + 1, Min(line_end + 1, Len(lines))))

MarkdownSection(content, branch, line_start, line_end, char_start) ==
    [content |-> content,
     section_type |-> IF branch = "paragraph" THEN _detect_content_type(content) ELSE branch,
     line_start |-> line_start, line_end |-> line_end,
     char_start |-> char_start, char_end |-> char_start + Len(content)]

SectionAt(lines, current_line, current_char) ==
    MarkdownSection(
        SectionContent(lines, current_line,
                       SectionLineEnd(lines, SectionBranch(lines, current_line), current_line)),
        SectionBranch(lines, current_line), current_line,
        SectionLineEnd(lines, SectionBranch(lines, current_line), current_line),
        current_char)

RECURSIVE SectionsFrom(_, _, _)
SectionsFrom(lines, current_line, current_char) ==
    IF current_line >= Len(lines) THEN <<>>
    ELSE <<SectionAt(lines, current_line, current_char)>>
         \o SectionsFrom(lines, SectionAt(lines, current_line, current_char).line_end + 1,
                         current_char
                         + Len(SectionAt(lines, current_line, current_char).content) + 1)

\* MarkdownParser.parse
parse(content) == IF content = "" THEN <<>> ELSE SectionsFrom(Split(content), 0, 0)

MaxSegmentLines == 3
SegmentLines == {"text", "", "# H", "#tag", "####### x", "~~~", "- a", "> q", "|a|b|", "  b"}
\* every document of one to n of the lines
LineTexts(lines, n) == {Join(doc) : doc \in UNION {[1..k -> lines] : k \in 1..n}}
SegmentInputs == LineTexts(SegmentLines, MaxSegmentLines)

SegmenterInit ==
    /\ TranslateIdle /\ ValidatorIdle /\ ContractIdle /\ ClassifierIdle
    /\ RewriteIdle /\ StageIdle /\ LaterIdle
    /\ s_text \in SegmentInputs
    /\ s_units = <<>> /\ s_sections = <<>> /\ s_joined = ""
    /\ s_pc = "start"

\* units = self._parse_translation_units(source_markdown)
ParseUnits ==
    /\ s_pc = "start"
    /\ s_units' = _parse_translation_units(s_text)
    /\ s_pc' = "units"
    /\ UNCHANGED <<s_text, s_sections, s_joined, not_svars>>

\* self._reconstruct_document(units, source_markdown) on the units as parsed
Reconstruct ==
    /\ s_pc = "units"
    /\ s_joined' = _reconstruct_document(s_units)
    /\ s_pc' = "joined"
    /\ UNCHANGED <<s_text, s_units, s_sections, not_svars>>

\* MarkdownParser().parse(content)
ParseSections ==
    /\ s_pc = "start"
    /\ s_sections' = parse(s_text)
    /\ s_pc' = "sections"
    /\ UNCHANGED <<s_text, s_units, s_joined, not_svars>>

SegmenterNext == ParseUnits \/ Reconstruct \/ ParseSections

SegmenterSpec == SegmenterInit /\ [][SegmenterNext]_vars

(***************************************************************************)
(* Properties of the segmenters (specification SegmenterSpec).             *)
(***************************************************************************)

\* C11: joining the units the segmenter returned with the newline separator
\* gives back the document exactly, whatever kinds of unit it holds.
SegmentationRoundTrips == s_pc = "joined" => s_joined = s_text

\* a document of paragraph and blank lines went through three units
ParagraphsRoundTripped ==
    /\ s_pc = "joined"
    /\ s_text = "text\n\ntext"
    /\ s_units = <<"text", "", "text">>
    /\ s_joined = s_text

\* line k opens a code fence that no later line closes
IsFenceLine(line) == StartsWith(Strip(line), Fence)
OpensUnterminatedFence(lines, k) ==
    /\ IsFenceLine(lines[k])
    /\ Cardinality({j \in 1..(k - 1) : IsFenceLine(lines[j])}) % 2 = 0
    /\ \A j \in (k + 1)..Len(lines) : ~IsFenceLine(lines[j])
\* the fence lines up to k begin with the marker itself (none is indented)
FencesUnindented(lines, k) == \A j \in 1..k : IsFenceLine(lines[j]) => StartsWith(lines[j], Fence)

IsHeaderLine(line) ==
    \E h \in 1..6 :
        /\ Len(line) > h
        /\ \A k \in 1..h : CharAt(line, k) = "#"
        /\ CharAt(line, h + 1) \in Whitespace

\* C20: a unit is a one-line header unit exactly when its line begins with
\* one to six '#' followed by whitespace.
HeaderUnitIffHeaderLine ==
    s_pc = "units"
    => \A i \in 1..Len(s_units) :
           _determine_section_type(s_units[i]) = "header" <=> IsHeaderLine(s_units[i])

\* a line that begins with a bullet or a numbered-list marker
IsListMarkerLine(line) == StartsListMarker(Strip(line))
\* a line with leading whitespace, some text and no list marker
IsIndentedContinuation(line) ==
    /\ Len(line) > 0
    /\ CharAt(line, 1) \in Whitespace
    /\ Strip(line) # ""
    /\ ~IsListMarkerLine(line)
\* the number of the document line at which unit k begins
UnitStartLine(units, k) ==
    IF k = 1 THEN 1 ELSE Len(Split(Join(SubSeq(units, 1, k - 1)))) + 1
\* last line of the list block opened at line i when the block takes every
\* following list-marker line and indented continuation line
AbsorbingListEnd(lines, i) ==
    FirstOr({j \in (i + 1)..Len(lines) :
                ~(IsListMarkerLine(lines[j]) \/ IsIndentedContinuation(lines[j]))},
            Len(lines) + 1) - 1

\* C21: a unit opened by a bullet or numbered-list line holds every line
\* that follows it directly and is a list-marker line or an indented
\* continuation line, and ends before the first line that is neither; an
\* indented continuation line after a list item begins no unit of its own.
ListBlockAbsorbsContinuations ==
    s_pc = "units"
    => \A k \in 1..Len(s_units) :
           IsListMarkerLine(Split(s_units[k])[1])
           => s_units[k] = Join(SubSeq(Split(s_text), UnitStartLine(s_units, k),
                                       AbsorbingListEnd(Split(s_text),
                                                        UnitStartLine(s_units, k))))

(***************************************************************************)
(* MarkdownTranslator._detect_model_type (markdown_translator.py);         *)
(* specification ClassifierSpec.                                           *)
(***************************************************************************)
reasoning_keywords == {"reason", "r1", "deepseek-reasoner", "o1", "o3"}
mt_like_keywords == {"mimo", "nmt", "translate", "opus-mt"}

\* the classification with the provider looked at before the model name
DetectProviderFirst(model_name, provider_name) ==
    IF ContainsAny(Lower(provider_name), mt_like_keywords) THEN "mt-like"
    ELSE IF ContainsAny(Lower(model_name), reasoning_keywords) THEN "reasoning"
    ELSE IF ~Contains(Lower(model_name), "qwen")
            /\ ContainsAny(Lower(model_name), mt_like_keywords) THEN "mt-like"
    ELSE "chat"

_detect_model_type(model_name, provider_name) ==
    IF ContainsAny(Lower(model_name), reasoning_keywords) THEN "reasoning"
    ELSE IF ContainsAny(Lower(provider_name), mt_like_keywords) THEN "mt-like"
    ELSE IF ~Contains(Lower(model_name), "qwen")
            /\ ContainsAny(Lower(model_name), mt_like_keywords) THEN "mt-like"
    ELSE "chat"

MaxNameParts == 2
NameParts == {"qwen", "-mt-", "nmt", "Translate", "opus-mt", "R1", "o3", "gpt-4"}
ModelNames == PieceTexts(NameParts, MaxNameParts) \ {""}
ProviderNames == {"", "openai", "ollama", "MiMo", "deepseek", "qwen", "translate-api"}

ClassifierInit ==
    /\ TranslateIdle /\ ValidatorIdle /\ ContractIdle /\ SegmenterIdle
    /\ RewriteIdle /\ StageIdle /\ LaterIdle
    /\ d_model \in ModelNames
    /\ d_provider \in ProviderNames
    /\ d_type = "" /\ d_pc = "start"

\* self.model_type = self._detect_model_type(model_name, provider_name)
DetectModelType ==
    /\ d_pc = "start"
    /\ d_type' = _detect_model_type(d_model, d_provider)
    /\ d_pc' = "done"
    /\ UNCHANGED <<d_model, d_provider, not_dvars>>

ClassifierNext == DetectModelType

ClassifierSpec == ClassifierInit /\ [][ClassifierNext]_vars

(***************************************************************************)
(* Properties of _detect_model_type (specification ClassifierSpec).        *)
(***************************************************************************)
NamesReasoning(name) ==
    \E kw \in {"reason", "r1", "deepseek-reasoner", "o1", "o3"} : Contains(Lower(name), kw)
NamesMt(name) == \E kw \in {"mimo", "nmt", "translate", "opus-mt"} : Contains(Lower(name), kw)
OnExclusionList(name) == Contains(Lower(name), "qwen")

\* C13: the classification always returns one of the three types, by first
\* match: reasoning when the model id names a reasoning model, whatever the
\* backend; else mt-like when the backend name holds an MT keyword, even for
\* a model id on the exclusion list; else mt-like when the model id holds an
\* MT keyword and is not on the exclusion list; else chat.
ClassificationByPrecedence ==
    d_pc = "done"
    => /\ d_type \in {"reasoning", "mt-like", "chat"}
       /\ NamesReasoning(d_model) => d_type = "reasoning"
       /\ (~NamesReasoning(d_model) /\ NamesMt(d_provider)) => d_type = "mt-like"
       /\ (~NamesReasoning(d_model) /\ ~NamesMt(d_provider)
           /\ NamesMt(d_model) /\ ~OnExclusionList(d_model)) => d_type = "mt-like"
       /\ (~NamesReasoning(d_model) /\ ~NamesMt(d_provider)
           /\ ~(NamesMt(d_model) /\ ~OnExclusionList(d_model))) => d_type = "chat"

\* a reasoning model served by a dedicated MT backend was classified
ReasoningOnMtBackendClassified ==
    /\ d_pc = "done"
    /\ d_model = "R1nmt" /\ d_provider = "MiMo"
    /\ d_type = "reasoning"

(***************************************************************************)
(* The rewrite strategies: TranslationOrientedRewriteStrategy              *)
(* (agents/rewrite/strategies/translation_oriented.py) and the two         *)
(* LineByLineRewriteStrategy classes (agents/rewrite/strategies/           *)
(* line_by_line.py and the older agents/strategies/line_by_line.py);       *)
(* specification RewriteSpec.  The Chinese-script phrases the extraction   *)
(* steps look for cannot occur in a text over the model's alphabet and are *)
(* left out.                                                               *)
(***************************************************************************)
PreserveShortLen == 10           \* len(unit_stripped) < 10
CodeShareNum == 3                \* code_length / len(unit) > 0.3
ShortQuoteLen == 20              \* len(unit_stripped) < 20
TooLongNum == 15                 \* len(optimized) > len(original) * 1.5
ExtractMinNum == 3               \* len(optimized) < len(original) * 0.3
SimilarityMinChars == 20         \* len(original_chars) > 20
SimilarityNum == 95              \* similarity > 0.95
SimilarityDen == 100
RewriteMinNum == 4               \* len(rewritten) < len(original) * 0.4
RewriteMaxFactor == 3            \* len(rewritten) > len(original) * 3.0
OverlapMinWords == 8             \* len(original_words) > 8
OverlapNum == 5                  \* overlap_ratio < 0.5
CopyLen == 10                    \* original[:10], original[-10:]
EnglishWordLen == 2              \* len(word) > 2

\* TranslationOrientedRewriteStrategy._should_preserve_as_is; before it the
\* variant without the table rule, which the claim about the preserved
\* units is tested against
PreserveAllButTables(unit) ==
    \/ Strip(unit) = ""
    \/ Len(Strip(unit)) < PreserveShortLen
    \/ StartsWith(Strip(unit), Fence)
    \/ Contains(unit, "http://") \/ Contains(unit, "https://") \/ Contains(unit, "](")
    \/ StartsWith(Strip(unit), "![")
    \/ (CountOf(unit, "~") >= 2 /\ RatioDen * (CountOf(unit, "~") * 2) > CodeShareNum * Len(unit))
    \/ (StartsWith(Strip(unit), "---") /\ EndsWith(Strip(unit), "---"))
    \/ (StartsWith(Strip(unit), "\"") /\ EndsWith(Strip(unit), "\"")
        /\ Len(Strip(unit)) < ShortQuoteLen)
_should_preserve_as_is(unit) ==
    \/ Strip(unit) = ""
    \/ Len(Strip(unit)) < PreserveShortLen
    \/ StartsWith(Strip(unit), Fence)
    \/ Contains(unit, "http://") \/ Contains(unit, "https://") \/ Contains(unit, "](")
    \/ StartsWith(Strip(unit), "![")
    \/ (CountOf(unit, "~") >= 2 /\ RatioDen * (CountOf(unit, "~") * 2) > CodeShareNum * Len(unit))
    \/ CountOf(unit, "|") >= 2
    \/ (StartsWith(Strip(unit), "---") /\ EndsWith(Strip(unit), "---"))
    \/ (StartsWith(Strip(unit), "\"") /\ EndsWith(Strip(unit), "\"")
        /\ Len(Strip(unit)) < ShortQuoteLen)

\* markers of _extract_optimized_unit that a text of the model can hold
extract_markers == {"- ", "Constraints:", "Rules:", "Examples:"}
\* the first line of the response that is not blank and holds no marker,
\* stripped; the response itself when there is none
FirstPlainLine(optimized) ==
    IF \A i \in 1..Len(Split(optimized)) :
           Strip(Split(optimized)[i]) = "" \/ ContainsAny(Strip(Split(optimized)[i]), extract_markers)
    THEN optimized
    ELSE Strip(Split(optimized)[SetMin({i \in 1..Len(Split(optimized)) :
               Strip(Split(optimized)[i]) # ""
               /\ ~ContainsAny(Strip(Split(optimized)[i]), extract_markers)})])
Shortened(optimized, original) ==
    IF RatioDen * Len(optimized) > TooLongNum * Len(original)
    THEN FirstPlainLine(optimized) ELSE optimized
CharsOf(s) == {CharAt(s, k) : k \in 1..Len(s)}
TooSimilar(original, optimized) ==
    /\ Cardinality(CharsOf(original)) > SimilarityMinChars
    /\ SimilarityDen * Cardinality(CharsOf(original) \cap CharsOf(optimized))
           > SimilarityNum * Cardinality(CharsOf(original))
Extracted(optimized, original) ==
    IF optimized = "" \/ RatioDen * Len(optimized) < ExtractMinNum * Len(original) THEN original
    ELSE IF TooSimilar(original, optimized) THEN original
    ELSE optimized
_extract_optimized_unit(response, original) ==
    Extracted(Shortened(Strip(response), original), original)

\* \w of the regular expressions, and the words of re.sub(r'[^\w\s]', ' ', s).split()
Letters == UpperSet \cup {CharAt(LowerCase, i) : i \in 1..26}
WordChars == Letters \cup Digits \cup {"_"} \cup ChineseChars
WordsOf(s) ==
    {SubSeq(s, a, b) : <<a, b>> \in
        {ab \in (1..Len(s)) \X (1..Len(s)) :
            /\ ab[1] <= ab[2]
            /\ \A k \in ab[1]..ab[2] : CharAt(s, k) \in WordChars
            /\ (ab[1] = 1 \/ CharAt(s, ab[1] - 1) \notin WordChars)
            /\ (ab[2] = Len(s) \/ CharAt(s, ab[2] + 1) \notin WordChars)}}
\* re.findall(r'\b[A-Za-z]+\b', s): the words made of letters only
EnglishWords(s) == {w \in WordsOf(s) : \A k \in 1..Len(w) : CharAt(w, k) \in Letters}
allowed_english ==
    {"OK", "AI", "API", "URL", "HTTP", "HTTPS", "HTML", "CSS", "JS", "JSON", "XML", "SQL",
     "IDE", "UI", "UX", "CPU", "GPU", "RAM", "SSD", "HDD"}
ProblematicEnglish(s) ==
    {w \in EnglishWords(s) :
        Len(w) > EnglishWordLen /\ \A a \in allowed_english : Lower(a) # Lower(w)}
\* s[:n] and s[-n:]
FirstChars(s, n) == SubSeq(s, 1, Min(n, Len(s)))
LastChars(s, n) == SubSeq(s, Max(1, Len(s) - n + 1), Len(s))

LowOverlap(original, rewritten) ==
    /\ Cardinality(WordsOf(original)) > OverlapMinWords
    /\ RatioDen * Cardinality(WordsOf(original) \cap WordsOf(rewritten))
           < OverlapNum * Cardinality(WordsOf(original))
PoorPattern(original, rewritten) ==
    \/ StartsWith(rewritten, FirstChars(original, CopyLen))
    \/ EndsWith(rewritten, LastChars(original, CopyLen))
    \/ Contains(rewritten, "[Mock")
StructureLost(original, rewritten) ==
    \/ (StartsWith(Strip(original), "#") /\ ~StartsWith(Strip(rewritten), "#"))
    \/ (StartsWithAny(Strip(original), {"-", "*", "+"})
        /\ ~StartsWithAny(Strip(rewritten), {"-", "*", "+"}))

\* TranslationOrientedRewriteStrategy._validate_translation_rewrite
_validate_translation_rewrite(original, rewritten) ==
    /\ Strip(rewritten) # ""
    /\ ~(RatioDen * Len(rewritten) < RewriteMinNum * Len(original))
    /\ ~(Len(rewritten) > RewriteMaxFactor * Len(original))
    /\ ~LowOverlap(original, rewritten)
    /\ Strip(rewritten) # Strip(original)
    /\ ~PoorPattern(original, rewritten)
    /\ ProblematicEnglish(rewritten) = {}
    /\ ~StructureLost(original, rewritten)

HalfDen == 2                     \* ratio < 0.5
LegacyMinNum == 3                \* len(rewritten) < len(original) * 0.3
LegacyTooLongFactor == 2         \* len(rewritten) > len(original) * 2
LegacyMaxFactor == 3             \* len(rewritten) > len(original) * 3

\* agents/rewrite/strategies/line_by_line.py:
\* LineByLineRewriteStrategy._clean_provider_response
_clean_provider_response(response) == Strip(response)

\* LineByLineRewriteStrategy._validate_rewrite of the same file; before it
\* the variant with the lower bound of the older strategy, which the claim
\* about the length bounds is tested against
ValidateRewriteFromThreeTenths(original, rewritten) ==
    /\ Strip(rewritten) # ""
    /\ (Len(Strip(original)) > 0 =>
            /\ ~(RatioDen * Len(Strip(rewritten)) < LegacyMinNum * Len(Strip(original)))
            /\ ~(Len(Strip(rewritten)) > RewriteMaxFactor * Len(Strip(original))))
    /\ Strip(rewritten) # Strip(original)
    /\ ~(/\ StartsWith(rewritten, FirstChars(original, CopyLen))
         /\ EndsWith(rewritten, LastChars(original, CopyLen)))
_validate_rewrite(original, rewritten) ==
    /\ Strip(rewritten) # ""
    /\ (Len(Strip(original)) > 0 =>
            /\ ~(HalfDen * Len(Strip(rewritten)) < Len(Strip(original)))
            /\ ~(Len(Strip(rewritten)) > RewriteMaxFactor * Len(Strip(original))))
    /\ Strip(rewritten) # Strip(original)
    /\ ~(/\ StartsWith(rewritten, FirstChars(original, CopyLen))
         /\ EndsWith(rewritten, LastChars(original, CopyLen)))

\* agents/strategies/line_by_line.py: LineByLineRewriteStrategy._is_code_content
code_indicators ==
    {"def ", "class ", "import ", "from ", "function", "var ", "let ", "const ",
     "if ", "for ", "while ", "return ", "print(", "console.log",
     "=>", "&&", "||", "++", "--", "/*", "*/", "//", "#include", "#define"}
_is_code_content(line) ==
    StartsWith(Strip(line), Fence) \/ ContainsAny(Strip(line), code_indicators)

\* s.split(p)[-1]
AfterLast(s, p) ==
    Slice(s, LastOr({i + Len(p) : i \in {j \in 1..Len(s) : MatchAt(s, p, j)}}, 1))
AfterLabel(rewritten) ==
    IF Contains(rewritten, "Rewrite:") THEN Strip(AfterLast(rewritten, "Rewrite:"))
    ELSE rewritten
FirstLineIfLong(rewritten, original) ==
    IF Len(rewritten) > LegacyTooLongFactor * Len(original)
    THEN Strip(Split(rewritten)[1]) ELSE rewritten
OrOriginal(rewritten, original) ==
    IF rewritten = "" \/ RatioDen * Len(rewritten) < LegacyMinNum * Len(original)
    THEN original ELSE rewritten
\* LineByLineRewriteStrategy._extract_rewritten_line of the same file
_extract_rewritten_line(response, original) ==
    OrOriginal(FirstLineIfLong(AfterLabel(Strip(response)), original), original)

\* LineByLineRewriteStrategy._validate_rewrite of the same file
legacy_validate_rewrite(original, rewritten) ==
    /\ ~(rewritten = "" \/ RatioDen * Len(rewritten) < LegacyMinNum * Len(original))
    /\ ~(Len(rewritten) > LegacyMaxFactor * Len(original))

(***************************************************************************)
(* RewriteSpec: rewrite() of the three strategies, one action per way an   *)
(* iteration of the per-unit loop can end.  A warning is recorded as the   *)
(* index it names and its text after "Unit i: " ("Line i: ").              *)
(***************************************************************************)
Strategies == {"translation_oriented", "line_by_line", "legacy_line_by_line"}
MaxRewriteLines == 2
RewriteLines ==
    {"", "ok @@@@@@@@@@", "# @@@@@@@@ ok", "~~~", "@@@@", "if @@@@@@@@@@",
     "1. @@@@@@@@@@", "|@@@@|@@@@|", "@@@@ http://x @@"}
RewriteSources == LineTexts(RewriteLines, MaxRewriteLines)
\* what the provider may answer
Responses ==
    {"", "@@@@@@@@@@ ok", "# ok @@@@@@@@", "ok", "ok @@@@@@@@@@",
     "Rewrite: @@@@@@@@@@ ok", "@@@@@@@@@@ if\n@@@@", "@@@@@@ @@@@@@@"}
ValidationFailed == "Rewrite validation failed, using original"
RewriteFailed == "Rewrite failed, using original"

\* _parse_translation_units / _parse_lines
ParsedUnits(strategy, source) ==
    IF strategy = "translation_oriented" THEN _parse_translation_units(source)
    ELSE Split(source)
\* the "skip" test of the loop that follows the test for an empty unit
Preserved(strategy, unit) ==
    \/ strategy = "translation_oriented" /\ _should_preserve_as_is(unit)
    \/ strategy = "legacy_line_by_line" /\ _is_code_content(unit)
\* what _rewrite_for_translation / _rewrite_line / _rewrite_line_with_ai returns
\* when the provider answered
Rewritten(strategy, unit, response) ==
    CASE strategy = "translation_oriented" -> _extract_optimized_unit(response, unit)
      [] strategy = "line_by_line" -> _clean_provider_response(response)
      [] OTHER -> _extract_rewritten_line(response, unit)
Valid(strategy, unit, rewritten) ==
    CASE strategy = "translation_oriented" -> _validate_translation_rewrite(unit, rewritten)
      [] strategy = "line_by_line" -> _validate_rewrite(unit, rewritten)
      [] OTHER -> legacy_validate_rewrite(unit, rewritten)

\* list.append: the front insertion is the faulty variant the order claim is
\* tested against
AppendedAtFront(rewritten_units, item) == <<item>> \o rewritten_units
Appended(rewritten_units, item) == Append(rewritten_units, item)

CurrentIndex == Len(r_events) + 1
CurrentUnit == r_units[CurrentIndex]
InLoop == r_pc = "loop" /\ Len(r_events) < Len(r_units)
ReachesRewrite == InLoop /\ Strip(CurrentUnit) # "" /\ ~Preserved(r_strategy, CurrentUnit)

\* the end of an iteration: one append to rewritten_units, the warnings and
\* the counter
Finish(event, branch, response, rewritten, item, new_warnings, counted) ==
    /\ r_rewritten' = Appended(r_rewritten, item)
    /\ r_warnings' = r_warnings \o new_warnings
    /\ r_count' = r_count + counted
    /\ r_events' = Append(r_events, [event |-> event, branch |-> branch,
                                     response |-> response, rewritten |-> rewritten])
    /\ UNCHANGED <<r_strategy, r_source, r_units, r_result, r_pc, not_rvars>>
\* "if self._validate...(unit, rewritten): ... else: ..."
Validated(event, response, rewritten) ==
    IF Valid(r_strategy, CurrentUnit, rewritten)
    THEN Finish(event, "accepted", response, rewritten, rewritten, <<>>,
                IF rewritten # CurrentUnit THEN 1 ELSE 0)
    ELSE Finish(event, "validation_failed", response, rewritten, CurrentUnit,
                <<[unit |-> CurrentIndex, text |-> ValidationFailed]>>, 0)

RewriteInit ==
    /\ r_strategy \in Strategies
    /\ r_source \in RewriteSources
    /\ r_units = <<>> /\ r_rewritten = <<>> /\ r_warnings = <<>> /\ r_count = 0
    /\ r_events = <<>> /\ r_result = "" /\ r_pc = "start"
    /\ TranslateIdle /\ ValidatorIdle /\ ContractIdle /\ SegmenterIdle /\ ClassifierIdle
    /\ StageIdle /\ LaterIdle

ParseDocument ==
    /\ r_pc = "start"
    /\ r_units' = ParsedUnits(r_strategy, r_source)
    /\ r_pc' = "loop"
    /\ UNCHANGED <<r_strategy, r_source, r_rewritten, r_warnings, r_count, r_events,
                   r_result, not_rvars>>

\* "if not unit.strip()"
SkipEmpty ==
    /\ InLoop /\ Strip(CurrentUnit) = ""
    /\ Finish("empty", "empty", "", "", CurrentUnit, <<>>, 0)

\* "if self._should_preserve_as_is(unit)" / "if self._is_code_content(...)"
PreserveUnit ==
    /\ InLoop /\ Strip(CurrentUnit) # "" /\ Preserved(r_strategy, CurrentUnit)
    /\ Finish("preserved", "preserved", "", "", CurrentUnit, <<>>, 0)

\* the provider answers
RewriteUnit ==
    /\ ReachesRewrite
    /\ \E response \in Responses :
           Validated("generated", response, Rewritten(r_strategy, CurrentUnit, response))

\* the provider call times out or raises: the except clauses of the rewrite
\* method return the unit, which the loop then validates
GeneratorFails ==
    /\ ReachesRewrite
    /\ \E event \in {"timeout", "error"} : Validated(event, "", CurrentUnit)

\* an exception leaves the rewrite method (it is raised before its try
\* statement: signal.signal outside the main thread, the prompt builder) and
\* reaches the except clause of the loop
RewriteRaises ==
    /\ ReachesRewrite
    /\ Finish("raised", "exception", "", "", CurrentUnit,
              <<[unit |-> CurrentIndex, text |-> RewriteFailed]>>, 0)

\* _reconstruct_document / '\n'.join after the loop
Assemble ==
    /\ r_pc = "loop" /\ Len(r_events) = Len(r_units)
    /\ r_result' = _reconstruct_document(r_rewritten)
    /\ r_pc' = "done"
    /\ UNCHANGED <<r_strategy, r_source, r_units, r_rewritten, r_warnings, r_count,
                   r_events, not_rvars>>

RewriteNext ==
    \/ ParseDocument \/ SkipEmpty \/ PreserveUnit \/ RewriteUnit \/ GeneratorFails
    \/ RewriteRaises \/ Assemble
RewriteSpec == RewriteInit /\ [][RewriteNext]_vars

WarningsFor(i) == {k \in 1..Len(r_warnings) : r_warnings[k].unit = i}

\* C14: when the provider call of a unit times out or raises, the output
\* entry of that unit is the original unit, exactly one warning names the
\* unit, and the loop goes on to assemble a document of all the units.
GeneratorFailureFallsBackWithOneWarning ==
    /\ \A i \in 1..Len(r_events) :
           r_events[i].event \in {"timeout", "error"} =>
               /\ r_rewritten[i] = r_units[i]
               /\ Cardinality(WarningsFor(i)) = 1
    /\ r_pc = "done" => Len(r_rewritten) = Len(r_units)

\* C15: the output list has one entry per finished iteration, n entries after
\* the loop; entry i is unit i, or the accepted rewrite of unit i, whichever
\* branch the unit took; the document is the join of the entries in order.
OneEntryPerUnitInOrder ==
    /\ Len(r_rewritten) = Len(r_events)
    /\ Len(r_events) <= Len(r_units)
    /\ \A i \in 1..Len(r_rewritten) :
           \/ r_rewritten[i] = r_units[i]
           \/ /\ r_events[i].branch = "accepted"
              /\ r_events[i].rewritten
                     = Rewritten(r_strategy, r_units[i], r_events[i].response)
              /\ Valid(r_strategy, r_units[i], r_events[i].rewritten)
              /\ r_rewritten[i] = r_events[i].rewritten
    /\ r_pc = "done" =>
           /\ Len(r_rewritten) = Len(r_units)
           /\ r_result = Join(r_rewritten)
AllBranchesAssembled ==
    /\ r_pc = "done" /\ r_strategy = "translation_oriented"
    /\ r_source = "ok @@@@@@@@@@\n~~~"
    /\ r_units = <<"ok @@@@@@@@@@", "~~~">>
    /\ r_events[1].branch = "accepted" /\ r_events[2].branch = "preserved"
    /\ r_rewritten = <<"@@@@@@@@@@ ok", "~~~">>
    /\ r_result = "@@@@@@@@@@ ok\n~~~"

(***************************************************************************)
(* StageSpec: the line filters of the cleaning pipeline, each applied on   *)
(* its own to a text: TranslationOutputContract._apply_forced_removal,     *)
(* _remove_instruction_echo_at_start, _remove_prompt_artifacts and         *)
(* MarkdownTranslator._final_cleanup.  The texts of the first two are a    *)
(* first line, a run of equal lines long enough to pass the caps of the    *)
(* filter, and two closing lines; those of the last two are every text of  *)
(* up to MaxStageLines lines.                                              *)
(***************************************************************************)
MaxSkipFill == 21
MaxEchoFill == 51
MaxStageLines == 2
SkipFillCounts == 0..MaxSkipFill
EchoFillCounts ==
    {0, 1, 2, EchoMaxRemoved - 2, EchoMaxRemoved - 1, EchoMaxRemoved,
     MaxEchoFill - 1, MaxEchoFill}
FilledTexts(heads, fills, counts, mids, tails) ==
    {Join(<<h>> \o Repeat(f, n) \o <<m, t>>) :
        h \in heads, f \in fills, n \in counts, m \in mids, t \in tails}

LongLine == "a line of the translated document"
ForcedTexts ==
    FilledTexts({"Glossary:", "# Terminology:", "text"}, {"x", ""}, SkipFillCounts,
                {"", "x", "# H", "Glossary:"}, {"x", "# end"})
EchoTexts ==
    FilledTexts({"let me translate", "You are a professional translator, translate it.",
                 "# I will translate", "text"},
                {"step 1: plan", "ok"}, EchoFillCounts,
                {"", "# Title", LongLine, "1. " \o LongLine, "2"},
                {LongLine, "# " \o LongLine, "x"})
ArtifactLines ==
    {"text", "", "preserve all", "# preserve all", "  # output only", "~~~ output only",
     "| variable names |", "a | output only", "|do not abbreviate|", "glossary:",
     "- byteplus", "# Glossary:"}
ArtifactTexts == LineTexts(ArtifactLines, MaxStageLines)
StageTexts(stage) ==
    CASE stage = "forced" -> ForcedTexts
      [] stage = "echo" -> EchoTexts
      [] OTHER -> ArtifactTexts

\* lines[content_start_idx:] when the echo is removed, every line otherwise
EchoKept(lines, content_start_idx) ==
    IF EchoRemoves(lines, content_start_idx) THEN (content_start_idx + 1)..Len(lines)
    ELSE 1..Len(lines)

StageInit ==
    /\ g_stage \in {"forced", "echo", "artifacts", "final"}
    /\ g_text \in StageTexts(g_stage)
    /\ g_out = "" /\ g_kept = {} /\ g_pc = "start"
    /\ TranslateIdle /\ ValidatorIdle /\ ContractIdle /\ SegmenterIdle /\ ClassifierIdle
    /\ RewriteIdle /\ LaterIdle

ApplyForcedRemoval ==
    /\ g_pc = "start" /\ g_stage = "forced"
    /\ g_out' = _apply_forced_removal(g_text)
    /\ g_kept' = IF g_text = "" THEN {}
                 ELSE {i \in 1..Len(Split(g_text)) : ForcedKeeps(Split(g_text), i)}
    /\ g_pc' = "done"
    /\ UNCHANGED <<g_stage, g_text, not_gvars>>

RemoveInstructionEcho ==
    /\ g_pc = "start" /\ g_stage = "echo"
    /\ IF _remove_instruction_echo_at_start_raises(g_text)
       THEN g_pc' = "crashed" /\ UNCHANGED <<g_out, g_kept>>
       ELSE /\ g_out' = _remove_instruction_echo_at_start(g_text)
            /\ g_kept' = EchoKept(Split(g_text), EchoScan(Split(g_text), 1, 0, 0))
            /\ g_pc' = "done"
    /\ UNCHANGED <<g_stage, g_text, not_gvars>>

RemovePromptArtifacts ==
    /\ g_pc = "start" /\ g_stage = "artifacts"
    /\ g_out' = _remove_prompt_artifacts(g_text)
    /\ g_kept' = {i \in 1..Len(Split(g_text)) : ~IsPromptArtifact(Split(g_text)[i])}
    /\ g_pc' = "done"
    /\ UNCHANGED <<g_stage, g_text, not_gvars>>

FinalCleanup ==
    /\ g_pc = "start" /\ g_stage = "final"
    /\ g_out' = _final_cleanup(g_text)
    /\ g_kept' = {i \in 1..Len(Split(g_text)) : ~FinalCleanupDrops(Split(g_text)[i])}
    /\ g_pc' = "done"
    /\ UNCHANGED <<g_stage, g_text, not_gvars>>

StageNext ==
    ApplyForcedRemoval \/ RemoveInstructionEcho \/ RemovePromptArtifacts \/ FinalCleanup
StageSpec == StageInit /\ [][StageNext]_vars

\* the first of the lines after line j that the filter kept, one past the
\* last line when it kept none
FirstKeptAfter(lines, kept, j) == FirstOr({i \in kept : i > j}, Len(lines) + 1)
FirstHeaderAfter(lines, j) ==
    FirstOr({i \in (j + 1)..Len(lines) : StartsWith(Strip(lines[i]), "#")}, 0)
SkipBounded(lines, kept) ==
    \A j \in 1..Len(lines) :
        OpensForcedSection(lines[j]) =>
            /\ FirstKeptAfter(lines, kept, j) - j - 1 <= ForcedSkipCap
            /\ FirstHeaderAfter(lines, j) # 0 => FirstHeaderAfter(lines, j) \in kept

\* C16: after a line that opens a section, at most 20 following lines, blank
\* ones included, are discarded before a line is kept again, and the first
\* following line that starts with '#' is kept.
SkipDiscardsAtMostCap ==
    (g_pc = "done" /\ g_stage = "forced") => SkipBounded(Split(g_text), g_kept)

\* the filter removed a prefix of the lines and returned the rest, stripped
\* (the text itself when it removed nothing)
RemovedPrefixOnly(text, lines, kept, out) ==
    \E k \in 0..Len(lines) :
        /\ kept = (k + 1)..Len(lines)
        /\ out = IF k = 0 THEN text ELSE Strip(Join(SubSeq(lines, k + 1, Len(lines))))
\* the lines from the first line with the property on
FromFirst(lines, P(_)) ==
    FirstOr({c \in 1..Len(lines) : P(lines[c])}, Len(lines) + 1)..Len(lines)
\* a line that looks like content: it starts with '#' or is longer than 30
\* characters, and it is not itself an echoed instruction
LooksLikeContentLine(line) ==
    /\ StartsWith(Strip(line), "#") \/ Len(Strip(line)) > EchoContentLen
    /\ ~ContainsAny(Lower(Strip(line)), NON_CONTENT_PATTERNS)

\* C17: the echo removal removes a prefix of the text only, no line at index
\* 50 or later, and neither the first line that looks like content nor any
\* line after it.
EchoKeepsFromFirstContentLine ==
    (g_pc = "done" /\ g_stage = "echo") =>
        /\ RemovedPrefixOnly(g_text, Split(g_text), g_kept, g_out)
        /\ \A i \in (1..Len(Split(g_text))) \ g_kept : i <= EchoScanLines
        /\ FromFirst(Split(g_text), LooksLikeContentLine) \subseteq g_kept

\* a header, a code fence or a table row, as the claim names them
Structural(line) ==
    \/ StartsWith(Strip(line), "#")
    \/ StartsWith(Strip(line), Fence)
    \/ (StartsWith(Strip(line), "|") /\ EndsWith(Strip(line), "|"))
\* the structural lines in their order, without surrounding whitespace (the
\* filters strip the text they return)
StructuralLines(lines) ==
    SelectSeq([i \in 1..Len(lines) |-> Strip(lines[i])], Structural)

\* C18: _remove_prompt_artifacts and _final_cleanup drop no structural line:
\* the headers, fences and table rows of the input are those of the output,
\* in the same order, whether or not they hold an artifact phrase.
StructuralLinesSurvive ==
    (g_pc = "done" /\ g_stage \in {"artifacts", "final"}) =>
        StructuralLines(Split(g_out)) = StructuralLines(Split(g_text))
ArtifactTableRowSurvived ==
    /\ g_pc = "done" /\ g_stage = "final"
    /\ g_text = "|do not abbreviate|\npreserve all"
    /\ g_kept = {1}
    /\ g_out = "|do not abbreviate|"

(***************************************************************************)
(* Content-start enforcement inside parse_model_output (ContractSpec).     *)
(***************************************************************************)
NoStartInFirstLines(lines) ==
    \A i \in 1..Min(EchoScanLines, Len(lines)) : ~IsContentStart(lines, i)

\* C19: when none of the first 50 lines of the text handed to
\* _enforce_content_start qualifies as a content start, the function returns
\* the text as it is and parse_model_output records 'no_valid_content_start'.
FailedEnforcementKeepsText ==
    (c_pc = "parsed" /\ c_raw # "" /\ NoStartInFirstLines(Split(c_pruned))) =>
        /\ c_full = c_pruned
        /\ "no_valid_content_start" \in c_meta.validation_errors
LateHeaderKept ==
    /\ c_pc = "parsed" /\ c_pass = 1
    /\ c_source = Join(Repeat("a = b", MaxSkippedLines) \o <<"# T">>)
    /\ c_pruned = c_source
    /\ c_full = c_source
    /\ c_cleaned = c_source
    /\ c_meta.validation_errors = {"no_valid_content_start"}


(***************************************************************************)
(* The glossary section of the prompt: Glossary (translator/glossary.py),  *)
(* PromptRenderer (prompt/renderer.py), PromptManager (prompt/manager.py)  *)
(* and MarkdownTranslator._build_complete_prompt; specification PromptSpec.*)
(* A dict is the sequence of its (key, value) pairs in insertion order.    *)
(***************************************************************************)
\* the characters of the glossary keys, by increasing code point
CodePointOrder == "Aa@"
CodePoint(c) == CHOOSE i \in 1..Len(CodePointOrder) : CharAt(CodePointOrder, i) = c
\* s < t as Python orders strings
StrLess(s, t) ==
    \E i \in 1..(Min(Len(s), Len(t)) + 1) :
        /\ SubSeq(s, 1, i - 1) = SubSeq(t, 1, i - 1)
        /\ i <= Len(t)
        /\ (i <= Len(s) => CodePoint(CharAt(s, i)) < CodePoint(CharAt(t, i)))

DictKeys(data) == {data[i][1] : i \in 1..Len(data)}
\* self.terms[chinese_term] = english_term
add_term(terms, chinese_term, english_term) ==
    IF chinese_term \in DictKeys(terms)
    THEN [i \in 1..Len(terms) |->
            IF terms[i][1] = chinese_term THEN <<chinese_term, english_term>> ELSE terms[i]]
    ELSE Append(terms, <<chinese_term, english_term>>)
is_empty(terms) == Len(terms) = 0
get_terms(terms) == terms

\* sorted(self.terms.items()): the keys differ, so the pairs go by key
sorted(items) ==
    [k \in 1..Len(items) |->
        CHOOSE it \in {items[i] : i \in 1..Len(items)} :
            Cardinality({o \in DictKeys(items) : StrLess(o, it[1])}) = k - 1]
\* f"- {key}: {value}"
EntryLine(item) == "- " \o item[1] \o ": " \o item[2]
EntryLines(items) == [i \in 1..Len(items) |-> EntryLine(items[i])]
to_prompt_string(terms) ==
    IF is_empty(terms) THEN "" ELSE Join(EntryLines(sorted(terms)))
\* PromptRenderer._format_dict: the items in the order of the dict
_format_dict(data) == Join(EntryLines(data))

\* The templates are files outside the source tree: each is stood for by
\* its path, the glossary template with the placeholder it is rendered for.
base_md == "[translation/base.md]"
base_chat_md == "[translation/base_chat.md]"
glossary_md == "[translation/glossary.md]\n{{GLOSSARY}}"

\* PLACEHOLDER_PATTERN.sub for the one placeholder of the templates
RECURSIVE Substitute(_, _, _)
Substitute(template, placeholder, value) ==
    IF FindFrom(template, placeholder, 1) = 0 THEN template
    ELSE SubSeq(template, 1, FindFrom(template, placeholder, 1) - 1) \o value
         \o Substitute(SubSeq(template, FindFrom(template, placeholder, 1) + Len(placeholder),
                              Len(template)),
                       placeholder, value)
render(template, GLOSSARY) == Substitute(template, "{{GLOSSARY}}", _format_dict(GLOSSARY))
load_and_render(template, GLOSSARY) == render(template, GLOSSARY)
compose_prompt(first, second, GLOSSARY) == render(first \o "\n\n" \o second, GLOSSARY)
_build_traditional_prompt(glossary) ==
    IF glossary # <<>> THEN compose_prompt(base_md, glossary_md, glossary) ELSE base_md
\* use_provider_system is False in every call of the translator
build_complete_translation_prompt(glossary) == _build_traditional_prompt(glossary)

mt_like_base ==
    "Translate the following Markdown document from Chinese to English.\n\n"
    \o "CRITICAL OUTPUT REQUIREMENTS:\n"
    \o "- Output ONLY the English translation\n"
    \o "- DO NOT include the original Chinese text\n"
    \o "- DO NOT output bilingual pairs or parallel text\n"
    \o "- DO NOT show \"Chinese: ... English: ...\" format\n"
    \o "- Your output must contain ONLY English text\n\n"
    \o "Preserve all Markdown formatting, code blocks, and structure.\n"
\* _build_mt_like_prompt with the glossary it is handed
_build_mt_like_prompt_glossary(glossary_dict) ==
    IF glossary_dict # <<>>
    THEN mt_like_base \o "\n" \o "Use these translations for specific terms:\n"
         \o Join(EntryLines(glossary_dict)) \o "\n"
    ELSE mt_like_base

\* glossary_dict of _build_complete_prompt; None is the empty dict, which
\* every later test treats alike
glossary_dict_of(terms) == IF ~is_empty(terms) THEN get_terms(terms) ELSE <<>>
\* _build_complete_prompt of a translator that holds a glossary
_build_complete_prompt_glossary(mtype, terms, chat_exists) ==
    IF mtype = "reasoning" THEN build_complete_translation_prompt(glossary_dict_of(terms))
    ELSE IF mtype = "mt-like" THEN _build_mt_like_prompt_glossary(glossary_dict_of(terms))
    ELSE IF chat_exists
         THEN IF glossary_dict_of(terms) # <<>>
              THEN base_chat_md \o "\n\n" \o load_and_render(glossary_md, glossary_dict_of(terms))
              ELSE base_chat_md
    ELSE build_complete_translation_prompt(glossary_dict_of(terms))

MaxTerms == 2
GlossaryKeys == {"@", "@@", "a@", "A"}
GlossaryValues == {"x", "y z"}
\* every dict of at most n terms, in every insertion order
Dicts(n) ==
    {d \in UNION {[1..k -> GlossaryKeys \X GlossaryValues] : k \in 0..n} :
        Cardinality(DictKeys(d)) = Len(d)}

PromptInit ==
    /\ EarlierIdle /\ AcceptIdle /\ ApiIdle
    /\ p_type \in ModelTypes
    /\ p_glossary \in Dicts(MaxTerms)
    /\ p_chat_exists \in BOOLEAN
    /\ p_prompt = "" /\ p_pc = "start"

\* glossary.add_term(chinese_term, english_term)
AddTerm ==
    /\ p_pc = "start"
    /\ \E zh \in GlossaryKeys, en \in GlossaryValues :
          /\ zh \in DictKeys(p_glossary) \/ Len(p_glossary) < MaxTerms
          /\ p_glossary' = add_term(p_glossary, zh, en)
    /\ UNCHANGED <<p_type, p_chat_exists, p_prompt, p_pc, not_pvars>>

\* prompt = self._build_complete_prompt()
BuildPrompt ==
    /\ p_pc = "start"
    /\ p_prompt' = _build_complete_prompt_glossary(p_type, p_glossary, p_chat_exists)
    /\ p_pc' = "built"
    /\ UNCHANGED <<p_type, p_glossary, p_chat_exists, not_pvars>>

PromptNext == AddTerm \/ BuildPrompt

PromptSpec == PromptInit /\ [][PromptNext]_vars

(***************************************************************************)
(* Properties of the prompt (specification PromptSpec).                    *)
(***************************************************************************)
\* the lines of the prompt that are glossary entries
EntryLineIndices(lines) ==
    {n \in 1..Len(lines) :
        \E item \in GlossaryKeys \X GlossaryValues : lines[n] = EntryLine(item)}
LineOf(lines, line) == FirstOr({n \in 1..Len(lines) : lines[n] = line}, 0)
SortedTermList(lines, terms) ==
    /\ Cardinality(EntryLineIndices(lines)) = Len(terms)
    /\ \A i \in 1..Len(terms) : LineOf(lines, EntryLine(terms[i])) # 0
    /\ \A i, j \in 1..Len(terms) :
           StrLess(terms[i][1], terms[j][1])
           => LineOf(lines, EntryLine(terms[i])) < LineOf(lines, EntryLine(terms[j]))

\* C22: for each of the three model types, the prompt built with a glossary
\* holds one entry line per term of the glossary, and the entries come in
\* the order of their source keys, whatever the order of insertion was.
GlossaryEntriesSortedByKey ==
    (p_pc = "built" /\ p_glossary # <<>>) => SortedTermList(Split(p_prompt), p_glossary)


(***************************************************************************)
(* RewriteValidatorSpec: the validator of each rewrite strategy applied to *)
(* an original and a candidate.  The candidates differ from the original   *)
(* in every character but their length, so that length alone decides.      *)
(***************************************************************************)
MaxRewrittenLen == 31
RECURSIVE Fill(_, _)
Fill(c, n) == IF n = 0 THEN "" ELSE c \o Fill(c, n - 1)
ValidatorOriginals == {"=" \o Fill("@", 8) \o "=", "=" \o Fill("@", 18) \o "="}
Paddings == {"", " "}
ValidatorCandidates ==
    {pad \o Fill("@", n) \o pad : pad \in Paddings, n \in 0..MaxRewrittenLen}

RewriteValidatorInit ==
    /\ EarlierIdle /\ PromptIdle /\ ApiIdle
    /\ q_validator \in Strategies
    /\ q_original \in ValidatorOriginals
    /\ q_rewritten \in ValidatorCandidates
    /\ q_valid = FALSE /\ q_pc = "start"

\* if self._validate_translation_rewrite(unit, rewritten_unit): and its like
ValidateCandidate ==
    /\ q_pc = "start"
    /\ q_valid' = Valid(q_validator, q_original, q_rewritten)
    /\ q_pc' = "done"
    /\ UNCHANGED <<q_validator, q_original, q_rewritten, not_qvars>>

RewriteValidatorNext == ValidateCandidate

RewriteValidatorSpec == RewriteValidatorInit /\ [][RewriteValidatorNext]_vars

(***************************************************************************)
(* Properties of the rewrite validators (RewriteValidatorSpec).            *)
(***************************************************************************)
\* n is below num/10 of m, or above three times m
OutsideLength(n, m, num) == 10 * n < num * m \/ n > 3 * m

\* C23 as stated: a candidate is rejected for its length by either
\* line-by-line validator exactly when it is shorter than 0.3 times or
\* longer than 3.0 times the original, and by the translation-oriented
\* validator exactly when shorter than 0.4 times or longer than 3.0 times.
LengthBoundsAsStated ==
    (q_pc = "done" /\ Strip(q_rewritten) # "")
    => (q_valid <=> ~OutsideLength(Len(q_rewritten), Len(q_original),
                                   IF q_validator = "translation_oriented" THEN 4 ELSE 3))

\* C23: the line-by-line validator of agents/rewrite rejects for length
\* exactly when the stripped candidate is shorter than 0.5 times or longer
\* than 3.0 times the stripped original; the older line-by-line validator of
\* agents/strategies exactly when the candidate is shorter than 0.3 times or
\* longer than 3 times the original; the translation-oriented validator
\* exactly when shorter than 0.4 times or longer than 3.0 times.
LengthBoundsPerValidator ==
    (q_pc = "done" /\ Strip(q_rewritten) # "")
    => (q_valid <=>
           CASE q_validator = "line_by_line" ->
                    ~OutsideLength(Len(Strip(q_rewritten)), Len(Strip(q_original)), 5)
             [] q_validator = "legacy_line_by_line" ->
                    ~OutsideLength(Len(q_rewritten), Len(q_original), 3)
             [] OTHER -> ~OutsideLength(Len(q_rewritten), Len(q_original), 4))

\* the line-by-line validator of agents/rewrite turned down a candidate of
\* four tenths of the original's length
FourTenthsRejectedLineByLine ==
    /\ q_pc = "done" /\ q_validator = "line_by_line"
    /\ Len(q_original) = 10 /\ q_rewritten = Fill("@", 4)
    /\ ~q_valid


(***************************************************************************)
(* Structure of the rewritten document (specification RewriteSpec).        *)
(***************************************************************************)
BeginsWithHeaderMarker(unit) == StartsWith(Strip(unit), "#")
BeginsWithListMarker(unit) ==
    StartsWithAny(Strip(unit), {"-", "*", "+"}) \/ StartsDigitsDot(Strip(unit))

\* C24: in the document a strategy returned, the entry of every unit whose
\* source begins with '#' begins with '#', and the entry of every unit whose
\* source begins with a bullet or a number and a dot begins with a list
\* marker, whether the rewrite was accepted or the original was kept.
StructuralMarkersSurvive ==
    r_pc = "done"
    => \A i \in 1..Len(r_units) :
           /\ BeginsWithHeaderMarker(r_units[i]) => BeginsWithHeaderMarker(r_rewritten[i])
           /\ BeginsWithListMarker(r_units[i]) => BeginsWithListMarker(r_rewritten[i])


\* the units the translation-oriented rewrite has to leave alone
MustBePreserved(unit) ==
    \/ Strip(unit) = ""
    \/ StartsWith(Strip(unit), Fence)
    \/ CountOf(unit, "|") >= 2
    \/ Contains(unit, "http://") \/ Contains(unit, "https://") \/ Contains(unit, "](")
    \/ Len(Strip(unit)) < 10
\* the ways an iteration ends without a call of the provider
NoGeneratorCall(event) == event \in {"empty", "preserved"}

\* C30: in the translation-oriented rewrite a blank unit, a fenced code
\* block, a table row, a unit that holds a URL or a Markdown link and a unit
\* shorter than 10 characters cause no call of the provider, and each stands
\* unchanged at its own position in the output.
PreservedUnitsUntouched ==
    r_strategy = "translation_oriented"
    => /\ \A i \in 1..Len(r_events) :
              MustBePreserved(r_units[i])
              => /\ NoGeneratorCall(r_events[i].event)
                 /\ r_rewritten[i] = r_units[i]
       /\ r_pc = "done" => /\ Len(r_rewritten) = Len(r_units)
                           /\ r_result = Join(r_rewritten)

\* a table row was kept in front of a unit whose rewrite was accepted
TableRowKeptBeforeRewrite ==
    /\ r_pc = "done" /\ r_strategy = "translation_oriented"
    /\ r_units = <<"|@@@@|@@@@|", "ok @@@@@@@@@@">>
    /\ r_events[1].event = "preserved"
    /\ r_events[2].branch = "accepted"
    /\ r_result = "|@@@@|@@@@|\n" \o r_rewritten[2]

\* ---------------------------------------------------------------------------
\* ApiSpec: the translation jobs of the HTTP API (api/endpoints/translation.py),
\* the connection registry (api/websocket/manager.py) and the websocket
\* endpoint (api/main.py), all coroutines of one event loop.  A coroutine runs
\* alone between two awaits; every action below is one such stretch.
\* ---------------------------------------------------------------------------

MaxRequests == 2
MaxSockets == 2

\* str(uuid.uuid4()): the n-th request gets the n-th fresh identifier
JobId(n) == "job" \o ToString(n)
JobIds == {JobId(n) : n \in 1..MaxRequests}
Sockets == {"ws" \o ToString(n) : n \in 1..MaxSockets}

\* request.source_markdown
RequestSources == {"", " \n", "@@ ok"}

\* what translator.translate hands back for a source: the source itself (every
\* fall back to the original), nothing, a translation, or a mostly Chinese text
TranslatorOutputs(source) == {source, "", "four", "@@@ k"}

None == [is_none |-> TRUE]

\* error_msg = str(e) of the exceptions perform_translation can meet
EmptyOrIdentical == "Translation failed: output is empty or identical to input"
ChineseOutput == "Translation validation failed: output contains Chinese characters"
TranslatorError == "translator error"
ValueError == "list.remove(x): x not in list"

Elements(list) == {list[i] : i \in 1..Len(list)}

\* list.remove(x) for an x that is in the list: the first occurrence goes
ListRemove(list, x) ==
    SubSeq(list, 1, (CHOOSE i \in 1..Len(list) :
                        list[i] = x /\ \A k \in 1..(i - 1) : list[k] # x) - 1)
    \o SubSeq(list, 1 + (CHOOSE i \in 1..Len(list) :
                        list[i] = x /\ \A k \in 1..(i - 1) : list[k] # x), Len(list))

\* del d[key]
DictDel(d, key) == [k \in (DOMAIN d) \ {key} |-> d[k]]

\* d[key] = value
DictSet(d, key, value) == [k \in (DOMAIN d) \cup {key} |-> IF k = key THEN value ELSE d[k]]

\* ConnectionManager.disconnect raises ValueError: the job still has a list and
\* the list does not hold the websocket
disconnect_raises(connections, websocket, job_id) ==
    /\ job_id \in DOMAIN connections
    /\ websocket \notin Elements(connections[job_id])

\* ConnectionManager.disconnect when it does not raise
disconnect(connections, websocket, job_id) ==
    IF job_id \notin DOMAIN connections THEN connections
    ELSE IF ListRemove(connections[job_id], websocket) = <<>>
         THEN DictDel(connections, job_id)
         ELSE DictSet(connections, job_id, ListRemove(connections[job_id], websocket))

\* for connection in disconnected_connections: self.disconnect(connection, job_id)
RECURSIVE RemoveDisconnected(_, _, _)
RemoveDisconnected(connections, disconnected, job_id) ==
    IF disconnected = <<>> THEN [connections |-> connections, raised |-> FALSE]
    ELSE IF disconnect_raises(connections, Head(disconnected), job_id)
         THEN [connections |-> connections, raised |-> TRUE]
         ELSE RemoveDisconnected(disconnect(connections, Head(disconnected), job_id),
                                 Tail(disconnected), job_id)

\* the list object the for loop of send_personal_message iterates: the job's
\* list, or the emptied list it was before its key was deleted
IteratedList(task, job_id) ==
    IF task.active /\ ~task.detached /\ job_id \in DOMAIN active_connections
    THEN active_connections[job_id] ELSE <<>>

\* entering send_personal_message: if job_id in self.active_connections
BeginSend(task, stage, connections, job_id) ==
    [task EXCEPT !.pc = "sending", !.stage = stage, !.idx = 0,
                 !.disconnected = <<>>, !.detached = FALSE,
                 !.active = (job_id \in DOMAIN connections)]

\* a disconnect from outside the loop deletes the key of a job whose task is
\* inside send_personal_message: the loop keeps the old, now empty, list
Detach(tasks, connections, job_id) ==
    IF /\ job_id \in DOMAIN tasks
       /\ tasks[job_id].pc = "sending"
       /\ job_id \notin DOMAIN connections
    THEN [tasks EXCEPT ![job_id].detached = TRUE]
    ELSE tasks

ApiInit ==
    /\ EarlierIdle /\ PromptIdle /\ AcceptIdle
    /\ job_storage = <<>> /\ a_responses = <<>> /\ a_tasks = <<>>
    /\ active_connections = <<>> /\ a_sockets = <<>>

NewJob(job_id, source_markdown) ==
    [id |-> job_id, status |-> "validating", progress |-> 0,
     source_markdown |-> source_markdown, result |-> None, error |-> "None"]

NewTask ==
    [pc |-> "queued", stage |-> "", idx |-> 0, disconnected |-> <<>>,
     active |-> FALSE, detached |-> FALSE, returned |-> FALSE, content |-> ""]

\* POST /translate
start_translation(source_markdown, provider_available) ==
    /\ Cardinality(DOMAIN job_storage) < MaxRequests
    /\ job_storage' = DictSet(job_storage, JobId(Cardinality(DOMAIN job_storage) + 1),
                              NewJob(JobId(Cardinality(DOMAIN job_storage) + 1),
                                     source_markdown))
    /\ IF Strip(source_markdown) = "" \/ ~provider_available
       THEN /\ a_responses' = DictSet(a_responses,
                                      JobId(Cardinality(DOMAIN job_storage) + 1), 400)
            /\ UNCHANGED a_tasks
       ELSE /\ a_responses' = DictSet(a_responses,
                                      JobId(Cardinality(DOMAIN job_storage) + 1), 200)
            /\ a_tasks' = DictSet(a_tasks,
                                  JobId(Cardinality(DOMAIN job_storage) + 1), NewTask)
    /\ UNCHANGED <<active_connections, a_sockets, not_avars>>

\* except Exception as e: of perform_translation, up to the await of send_error
JobFailed(job, error_msg) ==
    [job EXCEPT !.status = "error", !.progress = 0, !.error = error_msg]

\* if not translated_content or translated_content == source_markdown:
RejectsEmptyOnly(translated_content, source_markdown) ==
    translated_content = ""

ResultIsRejected(translated_content, source_markdown) ==
    translated_content = "" \/ translated_content = source_markdown

\* if chinese_ratio > 0.5:
ChineseRatioTooHigh(translated_content) ==
    2 * ChineseCount(translated_content) > Len(translated_content)

\* job_storage[job_id].update({"status": "completed", ...})
JobCompleted(job, translated_content) ==
    [job EXCEPT !.status = "completed", !.progress = 100,
                !.result = [translated_markdown |-> translated_content]]

\* perform_translation from its start to the first await inside
\* send_status_update(job_id, "translating", 0.0)
TaskStarts(job_id) ==
    /\ job_id \in DOMAIN a_tasks
    /\ a_tasks[job_id].pc = "queued"
    /\ job_storage' = [job_storage EXCEPT ![job_id].status = "translating"]
    /\ a_tasks' = [a_tasks EXCEPT
                     ![job_id] = BeginSend(@, "status0", active_connections, job_id)]
    /\ UNCHANGED <<a_responses, active_connections, a_sockets, not_avars>>

\* one turn of the for loop of send_personal_message: send_text to the next
\* connection of the list, which fails when the client has gone
SendNext(job_id) ==
    /\ job_id \in DOMAIN a_tasks
    /\ a_tasks[job_id].pc = "sending"
    /\ a_tasks[job_id].idx < Len(IteratedList(a_tasks[job_id], job_id))
    /\ a_tasks' = [a_tasks EXCEPT
          ![job_id].idx = @ + 1,
          ![job_id].disconnected =
              IF a_sockets[IteratedList(a_tasks[job_id], job_id)[a_tasks[job_id].idx + 1]].gone
              THEN Append(@, IteratedList(a_tasks[job_id], job_id)[a_tasks[job_id].idx + 1])
              ELSE @]
    /\ UNCHANGED <<job_storage, a_responses, active_connections, a_sockets, not_avars>>

\* the for loop is over
LoopOver(job_id) ==
    /\ job_id \in DOMAIN a_tasks
    /\ a_tasks[job_id].pc = "sending"
    /\ a_tasks[job_id].idx >= Len(IteratedList(a_tasks[job_id], job_id))

\* what the removal loop leaves of active_connections
Removed(job_id) ==
    RemoveDisconnected(active_connections, a_tasks[job_id].disconnected, job_id)

\* the removal loop raised inside the try: the except block takes over, or,
\* when the send was send_error of the except block, the task dies
SendRaises(job_id) ==
    /\ LoopOver(job_id)
    /\ Removed(job_id).raised
    /\ active_connections' = Removed(job_id).connections
    /\ IF a_tasks[job_id].stage = "error"
       THEN /\ a_tasks' = [a_tasks EXCEPT ![job_id].pc = "failed"]
            /\ UNCHANGED job_storage
       ELSE /\ job_storage' = [job_storage EXCEPT ![job_id] = JobFailed(@, ValueError)]
            /\ a_tasks' = [a_tasks EXCEPT
                 ![job_id] = BeginSend(@, "error", Removed(job_id).connections, job_id)]
    /\ UNCHANGED <<a_responses, a_sockets, not_avars>>

\* send_status_update(.., 0.0) returned: MarkdownTranslator(...) is built, which
\* may raise, and send_status_update(.., 10.0) is entered
TranslatorCreated(job_id, raises) ==
    /\ LoopOver(job_id)
    /\ ~Removed(job_id).raised
    /\ a_tasks[job_id].stage = "status0"
    /\ active_connections' = Removed(job_id).connections
    /\ IF raises
       THEN /\ job_storage' = [job_storage EXCEPT ![job_id] = JobFailed(@, TranslatorError)]
            /\ a_tasks' = [a_tasks EXCEPT
                 ![job_id] = BeginSend(@, "error", Removed(job_id).connections, job_id)]
       ELSE /\ UNCHANGED job_storage
            /\ a_tasks' = [a_tasks EXCEPT
                 ![job_id] = BeginSend(@, "status10", Removed(job_id).connections, job_id)]
    /\ UNCHANGED <<a_responses, a_sockets, not_avars>>

\* send_status_update(.., 10.0) returned: await loop.run_in_executor(...)
TranslateCalled(job_id) ==
    /\ LoopOver(job_id)
    /\ ~Removed(job_id).raised
    /\ a_tasks[job_id].stage = "status10"
    /\ active_connections' = Removed(job_id).connections
    /\ a_tasks' = [a_tasks EXCEPT ![job_id].pc = "executor"]
    /\ UNCHANGED <<job_storage, a_responses, a_sockets, not_avars>>

\* translator.translate returned: send_status_update(.., 90.0) is entered
TranslateReturns(job_id, translated_content) ==
    /\ job_id \in DOMAIN a_tasks
    /\ a_tasks[job_id].pc = "executor"
    /\ translated_content \in TranslatorOutputs(job_storage[job_id].source_markdown)
    /\ a_tasks' = [a_tasks EXCEPT
         ![job_id] = BeginSend([@ EXCEPT !.returned = TRUE, !.content = translated_content],
                               "status90", active_connections, job_id)]
    /\ UNCHANGED <<job_storage, a_responses, active_connections, a_sockets, not_avars>>

\* translator.translate raised
TranslateRaises(job_id) ==
    /\ job_id \in DOMAIN a_tasks
    /\ a_tasks[job_id].pc = "executor"
    /\ job_storage' = [job_storage EXCEPT ![job_id] = JobFailed(@, TranslatorError)]
    /\ a_tasks' = [a_tasks EXCEPT
         ![job_id] = BeginSend(@, "error", active_connections, job_id)]
    /\ UNCHANGED <<a_responses, active_connections, a_sockets, not_avars>>

\* send_status_update(.., 90.0) returned: the result is checked, and the job
\* is completed and send_completed entered, or an exception raised
ResultChecked(job_id) ==
    /\ LoopOver(job_id)
    /\ ~Removed(job_id).raised
    /\ a_tasks[job_id].stage = "status90"
    /\ active_connections' = Removed(job_id).connections
    /\ IF ResultIsRejected(a_tasks[job_id].content, job_storage[job_id].source_markdown)
       THEN /\ job_storage' = [job_storage EXCEPT ![job_id] = JobFailed(@, EmptyOrIdentical)]
            /\ a_tasks' = [a_tasks EXCEPT
                 ![job_id] = BeginSend(@, "error", Removed(job_id).connections, job_id)]
       ELSE IF ChineseRatioTooHigh(a_tasks[job_id].content)
       THEN /\ job_storage' = [job_storage EXCEPT ![job_id] = JobFailed(@, ChineseOutput)]
            /\ a_tasks' = [a_tasks EXCEPT
                 ![job_id] = BeginSend(@, "error", Removed(job_id).connections, job_id)]
       ELSE /\ job_storage' = [job_storage EXCEPT
                 ![job_id] = JobCompleted(@, a_tasks[job_id].content)]
            /\ a_tasks' = [a_tasks EXCEPT
                 ![job_id] = BeginSend(@, "completed", Removed(job_id).connections, job_id)]
    /\ UNCHANGED <<a_responses, a_sockets, not_avars>>

\* send_completed or send_error returned: perform_translation returns
TaskReturns(job_id) ==
    /\ LoopOver(job_id)
    /\ ~Removed(job_id).raised
    /\ a_tasks[job_id].stage \in {"completed", "error"}
    /\ active_connections' = Removed(job_id).connections
    /\ a_tasks' = [a_tasks EXCEPT ![job_id].pc = "done"]
    /\ UNCHANGED <<job_storage, a_responses, a_sockets, not_avars>>

\* websocket_endpoint: await manager.connect(websocket, job_id)
connect(websocket, job_id) ==
    /\ websocket \notin DOMAIN a_sockets
    /\ active_connections' =
          DictSet(active_connections, job_id,
                  IF job_id \in DOMAIN active_connections
                  THEN Append(active_connections[job_id], websocket)
                  ELSE <<websocket>>)
    /\ a_sockets' = DictSet(a_sockets, websocket,
                            [job_id |-> job_id, pc |-> "receiving", gone |-> FALSE])
    /\ UNCHANGED <<job_storage, a_responses, a_tasks, not_avars>>

\* the client of a connection goes away: sends to it fail from now on and
\* the endpoint's receive_text will raise
ClientGoes(websocket) ==
    /\ websocket \in DOMAIN a_sockets
    /\ ~a_sockets[websocket].gone
    /\ a_sockets' = [a_sockets EXCEPT ![websocket].gone = TRUE]
    /\ UNCHANGED <<job_storage, a_responses, a_tasks, active_connections, not_avars>>

\* websocket_endpoint: receive_text raised; finally: manager.disconnect(...)
EndpointCleanup(websocket) ==
    /\ websocket \in DOMAIN a_sockets
    /\ a_sockets[websocket].gone
    /\ a_sockets[websocket].pc = "receiving"
    /\ IF disconnect_raises(active_connections, websocket, a_sockets[websocket].job_id)
       THEN /\ a_sockets' = [a_sockets EXCEPT ![websocket].pc = "raised"]
            /\ UNCHANGED <<active_connections, a_tasks>>
       ELSE /\ a_sockets' = [a_sockets EXCEPT ![websocket].pc = "closed"]
            /\ active_connections' =
                  disconnect(active_connections, websocket, a_sockets[websocket].job_id)
            /\ a_tasks' = Detach(a_tasks,
                  disconnect(active_connections, websocket, a_sockets[websocket].job_id),
                  a_sockets[websocket].job_id)
    /\ UNCHANGED <<job_storage, a_responses, not_avars>>

TaskStep(job_id) ==
    \/ TaskStarts(job_id)
    \/ SendNext(job_id)
    \/ SendRaises(job_id)
    \/ \E raises \in BOOLEAN : TranslatorCreated(job_id, raises)
    \/ TranslateCalled(job_id)
    \/ \E source \in RequestSources : \E content \in TranslatorOutputs(source) :
          TranslateReturns(job_id, content)
    \/ TranslateRaises(job_id)
    \/ ResultChecked(job_id)
    \/ TaskReturns(job_id)

ApiNext ==
    \/ \E source \in RequestSources, available \in BOOLEAN :
          start_translation(source, available)
    \/ \E job_id \in JobIds : TaskStep(job_id)
    \/ \E websocket \in Sockets, job_id \in JobIds : connect(websocket, job_id)
    \/ \E websocket \in Sockets : ClientGoes(websocket)
    \/ \E websocket \in Sockets : EndpointCleanup(websocket)

ApiSpec == ApiInit /\ [][ApiNext]_vars

\* The event loop resumes every coroutine that is ready, and the translator
\* call returns or raises.
ApiFairSpec == ApiSpec /\ \A job_id \in JobIds : WF_vars(TaskStep(job_id))

\* GET /translate/{job_id}/status: the status code and the status it answers
get_translation_status(job_id) ==
    IF job_id \notin DOMAIN job_storage THEN [code |-> 404, status |-> ""]
    ELSE [code |-> 200, status |-> job_storage[job_id].status]

\* GET /translate/{job_id}/result: the status code and the body it answers
get_translation_result(job_id) ==
    IF job_id \notin DOMAIN job_storage THEN [code |-> 404, content |-> ""]
    ELSE IF job_storage[job_id].status # "completed" THEN [code |-> 400, content |-> ""]
    ELSE IF job_storage[job_id].result = None THEN [code |-> 404, content |-> ""]
    ELSE [code |-> 200, content |-> job_storage[job_id].result.translated_markdown]

\* C25: a request that start_translation answers with 400 (empty source or
\* unavailable provider) leaves no entry in job_storage for its job id.
RejectedRequestCreatesNoJob ==
    \A job_id \in DOMAIN a_responses :
        a_responses[job_id] = 400 => get_translation_status(job_id).code = 404

\* the translator call of the job has returned and its result was checked
ResultWasChecked(job_id) ==
    /\ job_id \in DOMAIN a_tasks
    /\ a_tasks[job_id].returned
    /\ a_tasks[job_id].stage # "status90"

\* C26: a job is never "completed" with a result that is empty or equal to its
\* source, and a job whose translator returned its source or nothing is, once
\* the result is checked, in status "error" without a result, so that the
\* result endpoint answers 400.
NoCompletedJobWithSourceAsResult ==
    \A job_id \in DOMAIN job_storage :
        /\ job_storage[job_id].status = "completed" =>
              /\ job_storage[job_id].result # None
              /\ job_storage[job_id].result.translated_markdown # ""
              /\ job_storage[job_id].result.translated_markdown
                    # job_storage[job_id].source_markdown
        /\ (/\ ResultWasChecked(job_id)
            /\ a_tasks[job_id].content \in {"", job_storage[job_id].source_markdown}) =>
              /\ job_storage[job_id].status = "error"
              /\ job_storage[job_id].result = None
              /\ get_translation_result(job_id).code = 400

\* The translator of a job fell back to the source text, and the job ended as
\* an error that says so.
FallbackOutputEndsAsError ==
    \E job_id \in DOMAIN a_tasks :
        /\ a_tasks[job_id].pc = "done"
        /\ a_tasks[job_id].returned
        /\ a_tasks[job_id].content = job_storage[job_id].source_markdown
        /\ job_storage[job_id].status = "error"
        /\ job_storage[job_id].error = EmptyOrIdentical

\* C29: the finally block of websocket_endpoint, calling disconnect for a
\* connection that send_personal_message has removed already, never raises.
SecondDisconnectNeverRaises ==
    \A websocket \in DOMAIN a_sockets : a_sockets[websocket].pc # "raised"

TerminalStatuses == {"completed", "error"}

\* a job whose background task has started reaches a terminal status
StartedJobTerminates(job_id) ==
    (job_id \in DOMAIN a_tasks /\ a_tasks[job_id].pc # "queued")
        ~> (job_id \in DOMAIN job_storage
              /\ job_storage[job_id].status \in TerminalStatuses)

\* a job in a terminal status keeps its status
TerminalStatusKept ==
    \A job_id \in DOMAIN job_storage :
        job_storage[job_id].status \in TerminalStatuses =>
            job_storage'[job_id].status = job_storage[job_id].status

\* C28: every job whose background task starts eventually is "completed" or
\* "error", and a job that is "completed" or "error" never changes its status.
JobsTerminateAndStay ==
    /\ \A job_id \in JobIds : StartedJobTerminates(job_id)
    /\ [][TerminalStatusKept]_vars

====
